---- MODULE Spec2Model ----
(***************************************************************************)
(* Verification model of psychopy-eyelogic.                                *)
(*                                                                         *)
(* Part 1: the plugin subsystem, psychopy/plugins/__init__.py              *)
(*   scanPlugins, listPlugins, loadPlugin, startUpPlugins, computeChecksum *)
(* Part 2: NumPyRingBuffer, psychopy/iohub/util/__init__.py                *)
(* Part 3: the mouse-simulated eye tracker,                                *)
(*   psychopy/iohub/devices/eyetracker/hw/local/mouse/eyetracker.py        *)
(* Part 4: Flow, NameSpace, loadFromXML and Routine of the builder's       *)
(*   experiment, psychopy/app/builder/experiment.py                        *)
(* Part 5: dollarSyntax, psychopy/experiment/params.py                     *)
(* Part 6: TextBox2 and its Caret, psychopy/visual/textbox2/textbox2.py    *)
(* Part 7: setAttribute, psychopy/tools/attributetools.py                  *)
(* Part 8: the package manager, psychopy/app/plugin_manager/packages.py    *)
(* Part 9: Form._doLayout, psychopy/visual/form.py                         *)
(***************************************************************************)
EXTENDS Integers, Sequences, FiniteSets, TLC

VARIABLES
    installedPlugins,   \* _installed_plugins_ : keys, in insertion order
    loadedPlugins,      \* _loaded_plugins_    : keys, in insertion order
    failedPlugins,      \* _failed_plugins_    : list of names
    sysModules,         \* sys.modules, restricted to the plugins' modules
    ns,                 \* attributes of the target namespaces
    winTypes,           \* psychopy.visual.backends.winTypes
    pluginComponents,   \* psychopy.experiment.components.pluginComponents
    startUp,            \* prefs.general['startUpPlugins'] (in memory)
    savedStartUp,       \* the startUpPlugins list as last saved to disk
    last,               \* the last call: operation, arguments, outcome, state before
    ck,                 \* the computeChecksum call in progress
    manifest,           \* the lines computeChecksum appended to the writeOut file
    ring,               \* a NumPyRingBuffer: _npa, max_size, _index
    rbAppended,         \* the values appended since creation or the last clear()
    clock,              \* what Computer.getTime() returns, in ticks
    et,                 \* the simulated EyeTracker and the ioHub server's devices
    poll,               \* the _poll() call in progress, and what the polls emitted
    flow,               \* the Flow: its entries, _loopList and _currentRoutine
    written,            \* the last Flow call: what addLoop was given, what writeCode did
    user,               \* NameSpace.user: the user-entered names, a list
    nsCall,             \* the last NameSpace call, and the run of make_valid calls it ends
    xml,                \* the last loadFromXML call: the file read and what the call built
    routine,            \* the components of a Routine and what getMaxTime returned for them
    dollar,             \* the last call of dollarSyntax and what it returned
    tb,                 \* a TextBox2 with its caret, the last event it handled and how it was before
    stim,               \* an object, the last call of setAttribute on it and the object before that call
    pkg,                \* the installed version of the package, the details panel, the last dialog and the last event
    form,               \* the items of a Form and the layout _doLayout computed for them
    edit                \* the last call of removeComponent
pluginVars == << installedPlugins, loadedPlugins, failedPlugins, sysModules, ns,
                 winTypes, pluginComponents, startUp, savedStartUp, last >>
checksumVars == << ck, manifest >>
ringVars == << ring, rbAppended >>
trackerVars == << clock, et, poll >>
flowVars == << flow, written >>
nameVars == << user, nsCall >>
xmlVars == << xml >>
routineVars == << routine >>
dollarVars == << dollar >>
textBoxVars == << tb >>
attributeVars == << stim >>
packagesVars == << pkg >>
formVars == << form >>
editVars == << edit >>
\* the variables the plugin registry's operations leave alone
nonPluginVars == << checksumVars, ringVars, trackerVars, flowVars, nameVars, xmlVars, routineVars, dollarVars, textBoxVars, attributeVars, packagesVars, formVars, editVars >>
\* the variables computeChecksum leaves alone
nonChecksumVars == << pluginVars, ringVars, trackerVars, flowVars, nameVars, xmlVars, routineVars, dollarVars, textBoxVars, attributeVars, packagesVars, formVars, editVars >>
nonRingVars == << pluginVars, checksumVars, trackerVars, flowVars, nameVars, xmlVars, routineVars, dollarVars, textBoxVars, attributeVars, packagesVars, formVars, editVars >>
nonTrackerVars == << pluginVars, checksumVars, ringVars, flowVars, nameVars, xmlVars, routineVars, dollarVars, textBoxVars, attributeVars, packagesVars, formVars, editVars >>
nonFlowVars == << pluginVars, checksumVars, ringVars, trackerVars, nameVars, xmlVars, routineVars, dollarVars, textBoxVars, attributeVars, packagesVars, formVars, editVars >>
\* the variables removeComponent leaves alone
nonFlowEditVars == << pluginVars, checksumVars, ringVars, trackerVars, nameVars, xmlVars, routineVars, dollarVars, textBoxVars, attributeVars, packagesVars, formVars >>
nonNameVars == << pluginVars, checksumVars, ringVars, trackerVars, flowVars, xmlVars, routineVars, dollarVars, textBoxVars, attributeVars, packagesVars, formVars, editVars >>
nonXmlVars == << pluginVars, checksumVars, ringVars, trackerVars, flowVars, nameVars, routineVars, dollarVars, textBoxVars, attributeVars, packagesVars, formVars, editVars >>
nonRoutineVars == << pluginVars, checksumVars, ringVars, trackerVars, flowVars, nameVars, xmlVars, dollarVars, textBoxVars, attributeVars, packagesVars, formVars, editVars >>
nonDollarVars == << pluginVars, checksumVars, ringVars, trackerVars, flowVars, nameVars, xmlVars, routineVars, textBoxVars, attributeVars, packagesVars, formVars, editVars >>
nonTextBoxVars == << pluginVars, checksumVars, ringVars, trackerVars, flowVars, nameVars, xmlVars, routineVars, dollarVars, attributeVars, packagesVars, formVars, editVars >>
nonAttributeVars == << pluginVars, checksumVars, ringVars, trackerVars, flowVars, nameVars, xmlVars, routineVars, dollarVars, textBoxVars, packagesVars, formVars, editVars >>
nonPackagesVars == << pluginVars, checksumVars, ringVars, trackerVars, flowVars, nameVars, xmlVars, routineVars, dollarVars, textBoxVars, attributeVars, formVars, editVars >>
nonFormVars == << pluginVars, checksumVars, ringVars, trackerVars, flowVars, nameVars, xmlVars, routineVars, dollarVars, textBoxVars, attributeVars, packagesVars, editVars >>
nonEditVars == << pluginVars, checksumVars, ringVars, trackerVars, flowVars, nameVars, xmlVars, routineVars, dollarVars, textBoxVars, attributeVars, packagesVars, formVars >>
vars == << pluginVars, checksumVars, ringVars, trackerVars, flowVars, nameVars, xmlVars, routineVars, dollarVars, textBoxVars, attributeVars, packagesVars, formVars, editVars >>

(***************************************************************************)
(* Bounds                                                                  *)
(***************************************************************************)
MaxStartUpArg == 2
MaxChunks == 3
MaxManifest == 1
MaxCapacity == 3
MaxAppends == 5
MaxClock == 8
MaxFlow == 5
MaxLoops == 2
MaxStale == 1
MaxUser == 3
MaxRoutineNodes == 1
MaxFlowNodes == 3
MaxComponents == 2
MaxVal == 3
MaxText == 3
MaxOut == 2
MaxSize == 2
MaxItems == 2
MaxOptions == 3

(***************************************************************************)
(* Helpers on sequences                                                    *)
(***************************************************************************)
Range(s) == { s[i] : i \in 1..Len(s) }

SeqRemoveFirst(s, x) ==
    IF x \notin Range(s) THEN s
    ELSE LET i == CHOOSE k \in 1..Len(s) : s[k] = x /\ \A j \in 1..(k-1) : s[j] # x
         IN  SubSeq(s, 1, i-1) \o SubSeq(s, i+1, Len(s))

(***************************************************************************)
(* The package environment.  Every distribution has a fixed entry map: an  *)
(* ordered list of groups, each an ordered list of entry points.           *)
(*   attr   the attribute name the entry point defines in the group         *)
(*   mod    ep.module_name                                                  *)
(*   obj    the object ep.load() returns ("" when ep.load() raises          *)
(*          ImportError)                                                    *)
(*   win    winTypeName of a window backend class ("" when it is none)      *)
(*   comp   the BaseComponent subclass a component module holds ("" = none) *)
(***************************************************************************)
EP(attr, mod, obj) == [attr |-> attr, mod |-> mod, obj |-> obj, win |-> "", comp |-> ""]
Group(fqn, eps) == [fqn |-> fqn, eps |-> eps]

Dists == {"good", "shadow", "partial", "forbid", "rootforbid", "noimp", "badreg",
          "badep", "other"}
\* the order in which a scan of the environment meets them
DistOrder == << "good", "shadow", "partial", "forbid", "rootforbid", "noimp", "badreg",
               "badep", "other" >>
\* a name that is no distribution at all
Ghost == "ghost"
PluginNames == Dists \cup {Ghost}

EntryMap(d) ==
    CASE d = "good" ->
           << Group("console_scripts", << EP("run", "modCli", "good.run") >>),
              Group("psychopy.visual",
                    << EP("NewStim", "modA", "good.NewStim"),
                       EP("shape", "modA", "good.shape") >>),
              Group("psychopy.visual.backends",
                    << [EP("glbackend", "modA", "good.GLBackend") EXCEPT !.win = "gl2"] >>) >>
      [] d = "shadow" ->
           << Group("psychopy.visual", << EP("NewStim", "modC", "shadow.NewStim") >>),
              Group("psychopy.experiment.components",
                    << [EP("newcomp", "modC", "shadow.newcomp") EXCEPT !.comp = "NewComponent"] >>) >>
      [] d = "partial" ->
           << Group("psychopy.visual", << EP("Extra", "modB", "partial.Extra") >>),
              Group("psychopy.missing", << EP("X", "modB", "partial.X") >>) >>
      [] d = "forbid" ->
           << Group("psychopy.visual", << EP("Extra", "modA", "forbid.Extra") >>),
              Group("psychopy.plugins", << EP("loadPlugin", "modA", "forbid.loadPlugin") >>) >>
      [] d = "rootforbid" ->
           << Group("psychopy.visual", << EP("Extra", "modB", "rootforbid.Extra") >>),
              Group("psychopy", << EP("plugins", "modB", "rootforbid.plugins") >>) >>
      [] d = "noimp" ->
           << Group("psychopy.visual",
                    << EP("Extra", "modB", "noimp.Extra"),
                       EP("Y", "modBad", "noimp.Y") >>) >>
      [] d = "badep" ->
           << Group("psychopy.visual",
                    << EP("Extra", "modB", "badep.Extra"),
                       EP("Z", "modB", "") >>) >>
      [] d = "badreg" ->
           << Group("psychopy.visual",
                    << EP("Extra", "modB", "badreg.Extra"),
                       EP("W", "modD", "badreg.W") >>) >>
      [] OTHER ->
           << Group("console_scripts", << EP("tool", "modCli", "other.tool") >>) >>

\* str.startswith('psychopy')
StartsWithPsychopy(fqn) ==
    fqn \in {"psychopy", "psychopy.visual", "psychopy.visual.backends",
             "psychopy.experiment.components", "psychopy.plugins", "psychopy.missing"}
\* str.startswith('psychopy.plugins')
StartsWithPsychopyPlugins(fqn) == fqn \in {"psychopy.plugins"}

\* any([i.startswith('psychopy') for i in entryMap.keys()])
AnyPsychopyGroup(entryMap) ==
    \E i \in 1..Len(entryMap) : StartsWithPsychopy(entryMap[i].fqn)


(***************************************************************************)
(* The plugins' modules.                                                   *)
(*   Importable(m)  importlib.import_module(m) succeeds                     *)
(*   Register(m)    what the module's __register__ is:                      *)
(*     "none"      no __register__, or __register__ is None                 *)
(*     "callable"  a function                                               *)
(*     "strlocal"  a str naming a callable of the module                    *)
(*     "strfqn"    a str that resolveObjectFromName resolves to a callable  *)
(*     "strbad"    a str that resolves to nothing callable                  *)
(*     "badtype"   neither str nor callable                                 *)
(***************************************************************************)
Modules == {"modA", "modB", "modC", "modD", "modBad", "modCli"}
Importable(m) == m # "modBad"
Register(m) ==
    CASE m = "modA"   -> "callable"
      [] m = "modC"   -> "strlocal"
      [] m = "modD"   -> "strbad"
      [] m = "modCli" -> "callable"
      [] OTHER        -> "none"
HasHook(m) == Register(m) \in {"callable", "strlocal", "strfqn"}

\* the arguments a caller passes to loadPlugin(plugin, *args, **kwargs)
ArgValues == {"args1", "args2"}

(***************************************************************************)
(* Target namespaces.  A slot is <<group name, attribute>>.                *)
(***************************************************************************)
\* resolveObjectFromName(fqn, error=False) is not None
Resolvable(fqn) ==
    fqn \in {"psychopy", "psychopy.visual", "psychopy.visual.backends",
             "psychopy.experiment.components", "psychopy.plugins"}

CoreModuleValues == {"module:psychopy.visual.shape", "module:psychopy.plugins"}
\* the namespaces before any plugin is loaded
InitialNs ==
    [ s \in { <<"psychopy.visual", a>> : a \in {"NewStim", "shape", "Extra", "Y", "Z", "W"} }
          \cup { <<"psychopy.visual.backends", "glbackend">>,
                 <<"psychopy.experiment.components", "newcomp">>,
                 <<"psychopy", "plugins">>,
                 <<"psychopy.plugins", "loadPlugin">> } |->
        CASE s = <<"psychopy.visual", "shape">>      -> "module:psychopy.visual.shape"
          [] s = <<"psychopy", "plugins">>           -> "module:psychopy.plugins"
          [] s = <<"psychopy.plugins", "loadPlugin">> -> "function:loadPlugin"
          [] OTHER                                    -> "absent" ]

\* hasattr(targObj, attr)
HasAttr(nsv, fqn, attr) == nsv[<<fqn, attr>>] # "absent"
\* inspect.ismodule(getattr(targObj, attr))
IsModuleValue(v) == v \in CoreModuleValues \cup {"shadow.newcomp"}

(***************************************************************************)
(* listPlugins                                                             *)
(***************************************************************************)
ListPlugins(which, installedV, loadedV, failedV, startUpV) ==
    CASE which = "loaded"   -> loadedV
      [] which = "startup"  -> startUpV
      [] which = "unloaded" ->
            LET InLoaded(p) == p \in Range(loadedV)
            IN  SelectSeq(installedV, InLoaded)
      [] which = "failed"   -> failedV
      [] OTHER              -> installedV

\* (variant: the already-loaded check never answers yes)
IsPluginLoadedNever(plugin, loadedV) == FALSE
\* isPluginLoaded(plugin)
IsPluginLoaded(plugin, loadedV) ==
    plugin \in Range(ListPlugins("loaded", <<>>, loadedV, <<>>, <<>>))

(***************************************************************************)
(* scanPlugins: the distributions found in the environment that advertise  *)
(* a group starting with 'psychopy', in the order they are found.          *)
(***************************************************************************)
\* (variant: the scan caches every distribution, whatever its groups)
ScanKeepsAll(d) == TRUE
ScanKeeps(d) == AnyPsychopyGroup(EntryMap(d))

ScanResult(found) ==
    LET Keep(d) == d \in found /\ ScanKeeps(d)
    IN  SelectSeq(DistOrder, Keep)


(***************************************************************************)
(* loadPlugin.  The call works on a record st:                             *)
(*   ok      FALSE once the call has logged a failure and is to return False *)
(*   mods    sys.modules                                                    *)
(*   hooks   the __register__ calls made so far, <<module, arguments>>      *)
(*   valid   validEntryPoints, flattened: <<fqn, entry point>> in order     *)
(*   log     the messages logged, <<level, what>>                           *)
(*   failed  _failed_plugins_                                               *)
(*   nsv, wt, pc   the namespaces, winTypes and pluginComponents            *)
(***************************************************************************)

\* if plugin not in _failed_plugins_: _failed_plugins_.append(plugin)
FailPlugin(failedV, plugin) ==
    IF plugin \notin Range(failedV) THEN Append(failedV, plugin) ELSE failedV

\* logging.error(...); record the failure; return False
FailCall(st, plugin, what) ==
    [st EXCEPT !.ok = FALSE,
               !.failed = FailPlugin(@, plugin),
               !.log = Append(@, <<"error", what>>)]

\* (variant: only the name prefix is tested)
IsForbiddenGroupPrefixOnly(group) == StartsWithPsychopyPlugins(group.fqn)
\* fqn.startswith('psychopy.plugins') or (fqn == 'psychopy' and 'plugins' in attrs)
IsForbiddenGroup(group) ==
    \/ StartsWithPsychopyPlugins(group.fqn)
    \/ /\ group.fqn = "psychopy"
       /\ \E j \in 1..Len(group.eps) : group.eps[j].attr = "plugins"

\* (variant: the module is imported and registered for every entry point)
NeedsImportAlways(mod, mods) == TRUE
\* if ep.module_name not in sys.modules
NeedsImport(mod, mods) == mod \notin mods

\* (variant: the override of a module fails the call, as in the lines the
\* source has commented out)
OverrideCheckRefuse(st, plugin, fqn, ep) ==
    IF HasAttr(st.nsv, fqn, ep.attr) /\ IsModuleValue(st.nsv[<<fqn, ep.attr>>])
    THEN [st EXCEPT !.ok = FALSE,
                    !.failed = FailPlugin(@, plugin),
                    !.log = Append(@, <<"warning", "override module">>)]
    ELSE st
\* the check for an existing module under the attribute: a warning is logged
\* and the call goes on (the failure branch is commented out in the source)
OverrideCheck(st, plugin, fqn, ep) ==
    IF HasAttr(st.nsv, fqn, ep.attr) /\ IsModuleValue(st.nsv[<<fqn, ep.attr>>])
    THEN [st EXCEPT !.log = Append(@, <<"warning", "override module">>)]
    ELSE st

\* (variant: the attribute is assigned as soon as its entry point validates)
OnValidEntryPointEager(st, fqn, ep) ==
    [st EXCEPT !.valid = Append(@, <<fqn, ep>>),
               !.nsv = [@ EXCEPT ![<<fqn, ep.attr>>] = ep.obj]]
\* validEntryPoints[fqn].append((targObj, attr, ep))
OnValidEntryPoint(st, fqn, ep) ==
    [st EXCEPT !.valid = Append(@, <<fqn, ep>>)]

\* one iteration of `for attr, ep in attrs.items()`
ValidateEntryPoint(st, plugin, args, fqn, ep) ==
    LET imp  == NeedsImport(ep.mod, st.mods)
        reg  == Register(ep.mod)
    IN  IF imp /\ ~Importable(ep.mod)
        THEN FailCall(st, plugin, "module cannot be imported")
        ELSE
        LET st1 == IF imp THEN [st EXCEPT !.mods = @ \cup {ep.mod}] ELSE st
        IN  IF imp /\ reg = "strbad"
            THEN FailCall(st1, plugin, "__register__ names no callable")
            ELSE IF imp /\ reg = "badtype"
            THEN FailCall(st1, plugin, "__register__ is not str or callable")
            ELSE
            LET st2 == IF imp /\ HasHook(ep.mod)
                       THEN [st1 EXCEPT !.hooks = Append(@, <<ep.mod, args>>)]
                       ELSE st1
                st3 == OverrideCheck(st2, plugin, fqn, ep)
            IN  IF ~st3.ok
                THEN st3
                ELSE IF ep.obj = ""
                THEN FailCall(st3, plugin, "failed to load entry point")
                ELSE OnValidEntryPoint(st3, fqn, ep)

RECURSIVE ValidateEntryPoints(_, _, _, _, _, _)
ValidateEntryPoints(st, plugin, args, fqn, eps, j) ==
    IF j > Len(eps) \/ ~st.ok
    THEN st
    ELSE ValidateEntryPoints(ValidateEntryPoint(st, plugin, args, fqn, eps[j]),
                             plugin, args, fqn, eps, j + 1)

\* one iteration of `for fqn, attrs in entryMap.items()`
ValidateGroup(st, plugin, args, group) ==
    IF ~StartsWithPsychopy(group.fqn)
    THEN st
    ELSE IF IsForbiddenGroup(group)
    THEN FailCall(st, plugin, "entry points into psychopy.plugins are forbidden")
    ELSE IF ~Resolvable(group.fqn)
    THEN FailCall(st, plugin, "entry point group does not exist")
    ELSE ValidateEntryPoints(st, plugin, args, group.fqn, group.eps, 1)

RECURSIVE ValidateGroups(_, _, _, _, _)
ValidateGroups(st, plugin, args, entryMap, i) ==
    IF i > Len(entryMap) \/ ~st.ok
    THEN st
    ELSE ValidateGroups(ValidateGroup(st, plugin, args, entryMap[i]),
                        plugin, args, entryMap, i + 1)

\* _registerWindowBackend(attr, ep), for an entry point that is a class
RegisterWindowBackend(wt, attr, ep) ==
    IF ep.win = "" THEN wt
    ELSE { e \in wt : e[1] # ep.win } \cup { <<ep.win, attr>> }

\* _registerBuilderComponent(ep)
RegisterBuilderComponent(pc, ep) ==
    IF ep.comp = "" THEN pc
    ELSE { e \in pc : e[1] # ep.comp } \cup { <<ep.comp, ep.obj>> }

\* one iteration of the assignment loop: setattr and the special cases
AssignEntryPoint(st, fqn, ep) ==
    [st EXCEPT !.nsv = [@ EXCEPT ![<<fqn, ep.attr>>] = ep.obj],
               !.wt  = IF fqn = "psychopy.visual.backends"
                       THEN RegisterWindowBackend(@, ep.attr, ep) ELSE @,
               !.pc  = IF fqn = "psychopy.experiment.components"
                       THEN RegisterBuilderComponent(@, ep) ELSE @]

RECURSIVE AssignEntryPoints(_, _)
AssignEntryPoints(st, k) ==
    IF k > Len(st.valid)
    THEN st
    ELSE AssignEntryPoints(AssignEntryPoint(st, st.valid[k][1], st.valid[k][2]), k + 1)

\* "If we made it here on a previously failed plugin ... can be removed":
\* if plugin not in _failed_plugins_: try: remove(plugin) except ValueError: pass
ClearFailed(failedV, plugin) ==
    IF plugin \notin Range(failedV) THEN SeqRemoveFirst(failedV, plugin) ELSE failedV

\* _loaded_plugins_[plugin] = entryMap
MarkLoaded(loadedV, plugin) ==
    IF plugin \in Range(loadedV) THEN loadedV ELSE Append(loadedV, plugin)

\* The whole call.  ret is "True", "False" or "raise" (an exception reaches the
\* caller); nvalid is the number of entry points that had validated when the
\* call ended; the other fields are the state the call leaves.
LoadPluginCall(plugin, args, installedV, loadedV, failedV, mods, nsv, wt, pc) ==
    LET st0 == [ok |-> TRUE, mods |-> mods, hooks |-> <<>>, valid |-> <<>>,
                log |-> <<>>, failed |-> failedV, nsv |-> nsv, wt |-> wt, pc |-> pc]
        out(ret, st, ld) == [ret |-> ret, loaded |-> ld, failed |-> st.failed,
                             mods |-> st.mods, nsv |-> st.nsv, wt |-> st.wt,
                             pc |-> st.pc, hooks |-> st.hooks, log |-> st.log,
                             nvalid |-> Len(st.valid)]
    IN  IF IsPluginLoaded(plugin, loadedV)
        THEN out("True", [st0 EXCEPT !.log = <<<<"info", "already loaded">>>>], loadedV)
        ELSE IF plugin \notin Range(installedV)
        THEN out("False",
                 [st0 EXCEPT !.log = <<<<"warning", "not a valid plugin">>>>,
                             !.failed = FailPlugin(@, plugin)],
                 loadedV)
        ELSE IF ~AnyPsychopyGroup(EntryMap(plugin))
        \* `_failed_plugins_.keys()`: a list has no keys(), AttributeError
        THEN out("raise",
                 [st0 EXCEPT !.log = <<<<"warning", "no entry points for PsychoPy">>>>],
                 loadedV)
        ELSE
        LET st1 == ValidateGroups(st0, plugin, args, EntryMap(plugin), 1)
        IN  IF ~st1.ok
            THEN out("False", st1, loadedV)
            ELSE LET st2 == AssignEntryPoints(st1, 1)
                 IN  out("True",
                         [st2 EXCEPT !.failed = ClearFailed(@, plugin)],
                         MarkLoaded(loadedV, plugin))


(***************************************************************************)
(* State, initial state and the operations of the plugin subsystem         *)
(***************************************************************************)
Snapshot ==
    [installed |-> installedPlugins, loaded |-> loadedPlugins,
     failed |-> failedPlugins, mods |-> sysModules, nsv |-> ns,
     wt |-> winTypes, pc |-> pluginComponents,
     startUp |-> startUp, saved |-> savedStartUp]

NoStartUpArg == [plugins |-> <<>>, add |-> FALSE, verify |-> FALSE]

\* the record of a call; the fields a call does not use keep these values
CallRecord(op) ==
    [op |-> op, plugin |-> "", args |-> "", ret |-> "None", n |-> 0,
     list |-> <<>>, hooks |-> <<>>, log |-> <<>>, sarg |-> NoStartUpArg,
     pre |-> Snapshot]

\* the environments a scan may find
Environments == { Dists, Dists \ {"good"} }

InitPlugins ==
    /\ installedPlugins = <<>>
    /\ loadedPlugins = <<>>
    /\ failedPlugins = <<>>
    /\ sysModules = {}
    /\ ns = InitialNs
    /\ winTypes = {}
    /\ pluginComponents = {}
    /\ startUp = <<>>
    /\ savedStartUp = <<>>

InitLast ==
    last = [op |-> "none", plugin |-> "", args |-> "", ret |-> "None", n |-> 0,
            list |-> <<>>, hooks |-> <<>>, log |-> <<>>, sarg |-> NoStartUpArg,
            pre |-> [installed |-> <<>>, loaded |-> <<>>, failed |-> <<>>,
                     mods |-> {}, nsv |-> InitialNs, wt |-> {}, pc |-> {},
                     startUp |-> <<>>, saved |-> <<>>]]

ScanPlugins(found) ==
    /\ installedPlugins' = ScanResult(found)
    /\ last' = [CallRecord("scanPlugins") EXCEPT !.ret = "int",
                                                 !.n = Len(ScanResult(found))]
    /\ UNCHANGED << loadedPlugins, failedPlugins, sysModules, ns, winTypes,
                    pluginComponents, startUp, savedStartUp, nonPluginVars >>

LoadPlugin(plugin, args) ==
    LET r == LoadPluginCall(plugin, args, installedPlugins, loadedPlugins,
                            failedPlugins, sysModules, ns, winTypes, pluginComponents)
    IN  /\ loadedPlugins' = r.loaded
        /\ failedPlugins' = r.failed
        /\ sysModules' = r.mods
        /\ ns' = r.nsv
        /\ winTypes' = r.wt
        /\ pluginComponents' = r.pc
        /\ last' = [CallRecord("loadPlugin") EXCEPT !.plugin = plugin, !.args = args,
                                                    !.ret = r.ret, !.hooks = r.hooks,
                                                    !.log = r.log, !.n = r.nvalid]
        /\ UNCHANGED << installedPlugins, startUp, savedStartUp, nonPluginVars >>

ListWhich == {"all", "startup", "loaded", "unloaded", "failed"}

ListPluginsQuery(which) ==
    /\ last' = [CallRecord("listPlugins") EXCEPT
                  !.plugin = which, !.ret = "list",
                  !.list = ListPlugins(which, installedPlugins, loadedPlugins,
                                       failedPlugins, startUp)]
    /\ UNCHANGED << installedPlugins, loadedPlugins, failedPlugins, sysModules, ns,
                    winTypes, pluginComponents, startUp, savedStartUp, nonPluginVars >>

(***************************************************************************)
(* startUpPlugins(plugins, add, verify).  The argument is None, a str or a *)
(* list: [kind |-> "none" | "str" | "list", names |-> the names].          *)
(* prefs.general always defines 'startUpPlugins' (the preferences are      *)
(* validated against a specification that gives it a default), so the      *)
(* early return for a missing key is not taken.                            *)
(***************************************************************************)
\* if isinstance(plugins, str): plugins = [plugins]
StartUpArgList(arg) == IF arg.kind = "none" THEN <<>> ELSE arg.names

\* notInstalled = [plugin not in installedPlugins for plugin in plugins]
NotInstalledFlags(plugins, installedV) ==
    [ i \in 1..Len(plugins) |-> plugins[i] \notin Range(installedV) ]

\* (variant: the call is refused only when no named plugin is installed)
VerifyRejectsAll(flags) == Len(flags) > 0 /\ \A i \in 1..Len(flags) : flags[i]
\* any(notInstalled)
VerifyRejects(flags) == \E i \in 1..Len(flags) : flags[i]

\* the names the error message lists: plugins[idx] for idx in missingIdx
RECURSIVE MissingNames(_, _, _)
MissingNames(plugins, flags, i) ==
    IF i > Len(plugins) THEN <<>>
    ELSE (IF flags[i] THEN << plugins[i] >> ELSE <<>>)
         \o MissingNames(plugins, flags, i + 1)

\* for plugin in plugins: if plugin not in list: list.append(plugin)
RECURSIVE AppendNew(_, _, _)
AppendNew(lst, plugins, i) ==
    IF i > Len(plugins) THEN lst
    ELSE AppendNew(IF plugins[i] \in Range(lst) THEN lst ELSE Append(lst, plugins[i]),
                   plugins, i + 1)

\* The whole call: ret is "None" or "raise"; err the names in the error
\* message; startUp and saved the list in memory and on disk afterwards.
StartUpPluginsCall(arg, add, verify, installedV, startUpV, savedV) ==
    LET plugins == StartUpArgList(arg)
        flags   == NotInstalledFlags(plugins, ListPlugins("all", installedV, <<>>, <<>>, <<>>))
        keep    == [ret |-> "None", err |-> <<>>, startUp |-> startUpV, saved |-> savedV]
    IN  IF plugins = <<>>
        THEN IF ~add
             THEN [keep EXCEPT !.startUp = <<>>, !.saved = <<>>]
             ELSE keep
        ELSE IF verify /\ VerifyRejects(flags)
        THEN [keep EXCEPT !.ret = "raise", !.err = MissingNames(plugins, flags, 1)]
        ELSE LET newList == IF add THEN AppendNew(startUpV, plugins, 1) ELSE plugins
             IN  [keep EXCEPT !.startUp = newList, !.saved = newList]

StartUpPlugins(arg, add, verify) ==
    LET r == StartUpPluginsCall(arg, add, verify, installedPlugins, startUp, savedStartUp)
    IN  /\ startUp' = r.startUp
        /\ savedStartUp' = r.saved
        /\ last' = [CallRecord("startUpPlugins") EXCEPT
                      !.ret = r.ret, !.list = r.err,
                      !.sarg = [plugins |-> StartUpArgList(arg), add |-> add,
                                verify |-> verify]]
        /\ UNCHANGED << installedPlugins, loadedPlugins, failedPlugins, sysModules, ns,
                        winTypes, pluginComponents, nonPluginVars >>

\* the names and the arguments a caller passes to startUpPlugins
StartUpNames == {"good", Ghost}
BoundedSeqs(S, n) == UNION { [1..k -> S] : k \in 0..n }
StartUpArgs ==
    { [kind |-> "none", names |-> <<>>] }
    \cup { [kind |-> "str", names |-> << x >>] : x \in StartUpNames }
    \cup { [kind |-> "list", names |-> l] : l \in BoundedSeqs(StartUpNames, MaxStartUpArg) }

(***************************************************************************)
(* computeChecksum(fpath, method, writeOut).  The file is its size in      *)
(* bytes; a chunk is the byte range <<from, to>> a read returned (from =   *)
(* to is b"").  The hash object is the sequence of chunks it was updated   *)
(* with; its digest stands for the bytes hashed: the ranges, empty ones    *)
(* dropped and adjoining ones joined, so that two digests are equal        *)
(* exactly when the same bytes were hashed in the same order.              *)
(***************************************************************************)
ChunkSize == 4096
Methods == {"md5", "sha256"}
FileSizes ==
    { k * ChunkSize + r : k \in 0..(MaxChunks - 1), r \in {0, 1, ChunkSize - 1} }
    \cup { MaxChunks * ChunkSize }

Min(a, b) == IF a <= b THEN a ELSE b
\* f.read(4096) at position pos of a file of size bytes
ReadChunk(pos, size) == << pos, Min(pos + ChunkSize, size) >>
IsEmptyChunk(c) == c[1] = c[2]

\* the bytes a sequence of updates hashed
RECURSIVE HashedBytes(_, _)
HashedBytes(updates, i) ==
    IF i = 0 THEN <<>>
    ELSE LET before == HashedBytes(updates, i - 1)
             c == updates[i]
         IN  IF IsEmptyChunk(c) THEN before
             ELSE IF before # <<>> /\ before[Len(before)][2] = c[1]
             THEN [before EXCEPT ![Len(before)] = << @[1], c[2] >>]
             ELSE Append(before, c)
\* hashobj.hexdigest()
HexDigest(method, updates) == [method |-> method, bytes |-> HashedBytes(updates, Len(updates))]

CkIdle == [pc |-> "idle", size |-> 0, method |-> "sha256", writeOut |-> FALSE, pos |-> 0,
           chunk |-> <<0, 0>>, reads |-> <<>>, updates |-> <<>>,
           digest |-> HexDigest("sha256", <<>>)]

InitChecksum ==
    /\ ck = CkIdle
    /\ manifest = <<>>

\* hashobj = methodObj[method](); open(fpath, "rb")
CkOpen(size, method, writeOut) ==
    /\ ck.pc \in {"idle", "done"}
    /\ writeOut => Len(manifest) < MaxManifest
    /\ ck' = [CkIdle EXCEPT !.pc = "opened", !.size = size, !.method = method,
                            !.writeOut = writeOut]
    /\ UNCHANGED << manifest, nonChecksumVars >>

\* chunk = f.read(4096)
CkReadFirst ==
    /\ ck.pc = "opened"
    /\ LET c == ReadChunk(ck.pos, ck.size)
       IN  ck' = [ck EXCEPT !.pc = "loop", !.chunk = c, !.pos = c[2],
                            !.reads = Append(@, c)]
    /\ UNCHANGED << manifest, nonChecksumVars >>

\* while chunk != b"": chunk = f.read(4096); hashobj.update(chunk)
CkLoop ==
    /\ ck.pc = "loop"
    /\ ~IsEmptyChunk(ck.chunk)
    /\ LET c == ReadChunk(ck.pos, ck.size)
       IN  ck' = [ck EXCEPT !.chunk = c, !.pos = c[2],
                            !.reads = Append(@, c),
                            !.updates = Append(@, c)]
    /\ UNCHANGED << manifest, nonChecksumVars >>

\* checksumStr = hashobj.hexdigest(); the optional write; return checksumStr
CkFinish ==
    /\ ck.pc = "loop"
    /\ IsEmptyChunk(ck.chunk)
    /\ LET d == HexDigest(ck.method, ck.updates)
       IN  /\ ck' = [ck EXCEPT !.pc = "done", !.digest = d]
           /\ manifest' = IF ck.writeOut THEN Append(manifest, d) ELSE manifest
    /\ UNCHANGED nonChecksumVars

(***************************************************************************)
(* NumPyRingBuffer(max_size).  _npa is an array of 2 * max_size elements   *)
(* that numpy.empty leaves uninitialised: whatever the memory held.  An    *)
(* array position p (from 0) is element p + 1 of the sequence npa, and the *)
(* slice _npa[a:b] is SubSeq(npa, a + 1, b).                               *)
(***************************************************************************)
Capacities == 2..MaxCapacity
Elements == {1, 2}
\* what the memory of a new array may hold
Memory == {0, 1}

NewRingBuffer(max_size, mem) == [npa |-> mem, max_size |-> max_size, index |-> 0]

Slice(a, lo, hi) == SubSeq(a, lo + 1, Min(hi, Len(a)))

SlotOnly(i, max_size) == i % max_size
MirrorSlot(i, max_size) == (i % max_size) + max_size

RingAppend(b, element) ==
    LET i == b.index
        first == [b.npa EXCEPT ![(i % b.max_size) + 1] = element]
    IN  [b EXCEPT !.npa = [first EXCEPT ![MirrorSlot(i, b.max_size) + 1] = element],
                  !.index = i + 1]

GetElements(b) ==
    Slice(b.npa, b.index % b.max_size, (b.index % b.max_size) + b.max_size)

IsFull(b) == b.index >= b.max_size

Clear(b) == [b EXCEPT !.index = 0]

\* buffer[:] : the slice with no start and no stop of getElements()
GetItemAll(b) == LET current_array == GetElements(b)
                 IN  Slice(current_array, 0, Len(current_array))

BufferLen(b) == IF IsFull(b) THEN b.max_size ELSE b.index

RingBufferUnused ==
    /\ ring = NewRingBuffer(2, << 0, 0, 0, 0 >>)
    /\ rbAppended = << >>

InitRingBuffer ==
    /\ \E max_size \in Capacities :
         \E mem \in [1..(2 * max_size) -> Memory] : ring = NewRingBuffer(max_size, mem)
    /\ rbAppended = << >>

RbAppend(element) ==
    /\ Len(rbAppended) < MaxAppends
    /\ ring' = RingAppend(ring, element)
    /\ rbAppended' = Append(rbAppended, element)
    /\ UNCHANGED nonRingVars

RbClear ==
    /\ ring' = Clear(ring)
    /\ rbAppended' = << >>
    /\ UNCHANGED nonRingVars

(***************************************************************************)
(* The mouse-simulated EyeTracker.  Time is counted in ticks; ISI is the   *)
(* inter-sample interval 1.0 / sampling_rate in ticks, and sample times    *)
(* are exact (the rounding of the float additions is not modelled).        *)
(*   et.mouseDevice  the ioHub server has a device of class Mouse           *)
(*   et.ioMouse      EyeTracker._ioMouse is not None                        *)
(*   et.recording    EyeTracker._recording                                  *)
(*   et.lastTime     EyeTracker._last_mouse_event_time (0: none yet)        *)
(*   et.gaze         _latest_gaze_position: a position, or NoGaze for None  *)
(*   et.sample       _latest_sample: NoSample for None, else the sample's   *)
(*                   time, gaze (NoGaze when gx, gy are UNDEFINED) and      *)
(*                   status, with the buttons and position read for it      *)
(*   et.reporting    the event reporting flag of the Device base class      *)
(* poll.pc is "loop" inside the while loop of _poll(); poll.L is the last  *)
(* sample time when the loop was entered, poll.T the time the loop ended,  *)
(* poll.emitted the sample times of this call and poll.session those of    *)
(* the recording session.  ran tells whether the call found the tracker    *)
(* connected and recording.  poll.call is the last call made on the        *)
(* tracker: its name, its argument and whether it changed the tracker.     *)
(***************************************************************************)
ISI == 2
NoGaze == << >>
NoSample == [none |-> TRUE]
Positions == { << 3, 4 >>, << 5, 6 >> }
StartGaze == << 0, 0 >>

EtNew(mouseDevice) ==
    [mouseDevice |-> mouseDevice, ioMouse |-> FALSE, recording |-> FALSE, lastTime |-> 0,
     gaze |-> StartGaze, sample |-> NoSample, reporting |-> FALSE]

TrackerCall(op, arg, changed) == [op |-> op, arg |-> arg, changed |-> changed]

PollIdle == [pc |-> "idle", ran |-> FALSE, L |-> 0, T |-> 0, emitted |-> << >>,
             session |-> << >>, call |-> TrackerCall("none", FALSE, FALSE)]

IsConnected(t) == t.ioMouse
IsRecordingEnabled(t) == t.recording

ConnectMouse(t) == [t EXCEPT !.ioMouse = t.mouseDevice]

\* Device.enableEventReporting, which is not part of the sources at hand:
\* it stores the flag and returns it
EnableEventReporting(t, enabled) == [t EXCEPT !.reporting = enabled]

SetConnectionStateToggle(t, enable) == [t EXCEPT !.ioMouse = ~t.ioMouse /\ t.mouseDevice]

SetConnectionStateCall(t, enable) ==
    IF enable /\ ~t.ioMouse THEN ConnectMouse(t)
    ELSE IF ~enable /\ t.ioMouse THEN [t EXCEPT !.ioMouse = FALSE]
    ELSE t

StopRecording(t) == [t EXCEPT !.recording = FALSE, !.sample = NoSample, !.lastTime = 0]

SetRecordingStateCall(t, recording) ==
    LET current_state == IsRecordingEnabled(t)
        t1 == IF recording /\ ~current_state
              THEN LET t0 == [t EXCEPT !.recording = TRUE]
                   IN  IF ~t0.ioMouse THEN ConnectMouse(t0) ELSE t0
              ELSE IF ~recording /\ current_state THEN StopRecording(t)
              ELSE t
    IN  EnableEventReporting(t1, recording)

GazeKeep(t, lb, rb, position) == t.gaze
GazeFromButtons(t, lb, rb, position) ==
    IF rb /\ lb THEN NoGaze
    ELSE IF rb THEN position
    ELSE t.gaze

AddSample(t, sample_time, lb, rb, position) ==
    LET blink == t.gaze = NoGaze
    IN  [t EXCEPT !.sample = [time |-> sample_time,
                              gaze |-> IF blink THEN NoGaze ELSE t.gaze,
                              status |-> IF blink THEN 2 ELSE 0,
                              lb |-> lb, rb |-> rb, position |-> position]]

NextSampleTimeNow(lastTime, now) == now
NextSampleTime(lastTime, now) == lastTime + ISI

TrackerUnused ==
    /\ clock = 1
    /\ et = EtNew(TRUE)
    /\ poll = PollIdle

InitTracker ==
    /\ clock = 1
    /\ \E mouseDevice \in BOOLEAN : et = EtNew(mouseDevice)
    /\ poll = PollIdle

Tick ==
    /\ clock < MaxClock
    /\ clock' = clock + 1
    /\ UNCHANGED << et, poll, nonTrackerVars >>

SetConnectionState(enable) ==
    /\ poll.pc = "idle"
    /\ et' = SetConnectionStateCall(et, enable)
    /\ poll' = [poll EXCEPT !.ran = FALSE,
                            !.call = TrackerCall("setConnectionState", enable, et' # et)]
    /\ UNCHANGED << clock, nonTrackerVars >>

SetRecordingState(recording) ==
    /\ poll.pc = "idle"
    /\ et' = SetRecordingStateCall(et, recording)
    /\ poll' = [poll EXCEPT !.ran = FALSE,
                            !.session = IF et'.recording = et.recording THEN @ ELSE << >>,
                            !.call = TrackerCall("setRecordingState", recording, et' # et)]
    /\ UNCHANGED << clock, nonTrackerVars >>

\* _poll() up to the first test of the while loop
PollStart ==
    /\ poll.pc = "idle"
    /\ IF IsConnected(et) /\ IsRecordingEnabled(et)
       THEN /\ et' = IF et.lastTime = 0 THEN [et EXCEPT !.lastTime = clock - ISI] ELSE et
            /\ poll' = [poll EXCEPT !.pc = "loop", !.ran = TRUE, !.L = et'.lastTime,
                                    !.T = 0, !.emitted = << >>,
                                    !.call = TrackerCall("_poll", FALSE, FALSE)]
       ELSE /\ et' = et
            /\ poll' = [poll EXCEPT !.ran = FALSE,
                                    !.call = TrackerCall("_poll", FALSE, FALSE)]
    /\ UNCHANGED << clock, nonTrackerVars >>

\* one test of the while loop and, when it holds, one pass through its body
PollLoop(lb, rb, position) ==
    /\ poll.pc = "loop"
    /\ IF clock - et.lastTime >= ISI
       THEN LET t1 == [et EXCEPT !.gaze = GazeFromButtons(et, lb, rb, position)]
                next_sample_time == NextSampleTime(et.lastTime, clock)
                t2 == [t1 EXCEPT !.lastTime = next_sample_time]
            IN  /\ et' = AddSample(t2, next_sample_time, lb, rb, position)
                /\ poll' = [poll EXCEPT !.emitted = Append(@, next_sample_time),
                                        !.session = Append(@, next_sample_time)]
       ELSE /\ et' = et
            /\ poll' = [poll EXCEPT !.pc = "idle", !.T = clock]
    /\ UNCHANGED << clock, nonTrackerVars >>

(***************************************************************************)
(* Flow: a list of entries, each a Routine, a LoopInitiator or a           *)
(* LoopTerminator; ref is the routine's name or the loop the entry refers  *)
(* to.  Loop handlers are objects compared by identity; a handler given to *)
(* addLoop is one that was just constructed, so it is not in the Flow yet. *)
(* requirePsychopyLibs(['data']) changes nothing: 'data' is among the      *)
(* experiment's libraries from construction.                               *)
(***************************************************************************)
Loops == 1..MaxLoops
RoutineNames == {"trial"}
Routine(name) == [type |-> "Routine", ref |-> name]
LoopInitiator(loop) == [type |-> "LoopInitiator", ref |-> loop]
LoopTerminator(loop) == [type |-> "LoopTerminator", ref |-> loop]

\* list.insert(i, x): a negative index counts from the end, and an index
\* beyond either end is brought back to that end
ListInsert(s, i, x) ==
    LET n == Len(s)
        j == IF i < 0 THEN (IF i + n < 0 THEN 0 ELSE i + n)
             ELSE IF i > n THEN n ELSE i
    IN  SubSeq(s, 1, j) \o << x >> \o SubSeq(s, j + 1, n)

AddLoopInitiatorFirst(entries, loop, startPos, endPos) ==
    ListInsert(ListInsert(entries, startPos, LoopInitiator(loop)), endPos,
               LoopTerminator(loop))

AddLoopCall(entries, loop, startPos, endPos) ==
    ListInsert(ListInsert(entries, endPos, LoopTerminator(loop)), startPos,
               LoopInitiator(loop))

AddRoutineCall(entries, newRoutine, pos) == ListInsert(entries, pos, newRoutine)

\* writeMainCode of one entry, on st = [loopList, raised, trace]; list.remove
\* takes out the first occurrence and raises ValueError when there is none
PushFront(loopList, loop) == << loop >> \o loopList
Push(loopList, loop) == Append(loopList, loop)

WriteMainCode(st, entry) ==
    LET step(after) == [type |-> entry.type, ref |-> entry.ref,
                        before |-> st.loopList, after |-> after]
    IN  IF entry.type = "LoopInitiator"
        THEN LET l == Push(st.loopList, entry.ref)
             IN  [st EXCEPT !.loopList = l, !.trace = Append(@, step(l))]
        ELSE IF entry.type = "LoopTerminator"
        THEN IF entry.ref \in Range(st.loopList)
             THEN LET l == SeqRemoveFirst(st.loopList, entry.ref)
                  IN  [st EXCEPT !.loopList = l, !.trace = Append(@, step(l))]
             ELSE [st EXCEPT !.raised = TRUE]
        ELSE [st EXCEPT !.trace = Append(@, step(st.loopList))]

RECURSIVE MainPass(_, _, _)
MainPass(entries, i, st) ==
    IF i > Len(entries) \/ st.raised THEN st
    ELSE MainPass(entries, i + 1, WriteMainCode(st, entries[i]))

NoEntry == [type |-> "None", ref |-> 0]

\* writeCode: the three passes; an exception in the main pass ends the call
WriteCodeCall(f) ==
    LET n == Len(f.entries)
        main == MainPass(f.entries, 1, [loopList |-> f.loopList, raised |-> FALSE,
                                        trace |-> << >>])
        visited == IF main.raised THEN Len(main.trace) + 1 ELSE n
    IN  [flow |-> [entries |-> f.entries,
                   loopList |-> main.loopList,
                   currentRoutine |-> IF n = 0 THEN f.currentRoutine
                                      ELSE f.entries[visited]],
         raised |-> main.raised,
         trace |-> main.trace,
         passes |-> IF main.raised THEN << n, Len(main.trace), 0 >> ELSE << n, n, n >>]

NoWrite == [op |-> "none", regular |-> TRUE, raised |-> FALSE, startList |-> << >>,
            trace |-> << >>, passes |-> << 0, 0, 0 >>]

InitFlow ==
    /\ flow = [entries |-> << >>, loopList |-> << >>, currentRoutine |-> NoEntry]
    /\ written = NoWrite

InFlow(entries) == { entries[i].ref : i \in { k \in 1..Len(entries) : entries[k].type # "Routine" } }

\* regular: every addLoop call so far was given 0 <= startPos <= endPos
\* with startPos no more than the length of the Flow
AddLoop(loop, startPos, endPos) ==
    /\ Len(flow.entries) + 2 <= MaxFlow
    /\ loop \notin InFlow(flow.entries)
    /\ flow' = [flow EXCEPT !.entries = AddLoopCall(@, loop, startPos, endPos)]
    /\ written' = [NoWrite EXCEPT !.op = "addLoop",
                     !.regular = written.regular /\ 0 <= startPos /\ startPos <= endPos
                                 /\ startPos <= Len(flow.entries)]
    /\ UNCHANGED nonFlowVars

AddRoutine(newRoutine, pos) ==
    /\ Len(flow.entries) + 1 <= MaxFlow
    /\ flow' = [flow EXCEPT !.entries = AddRoutineCall(@, newRoutine, pos)]
    /\ written' = [NoWrite EXCEPT !.op = "addRoutine", !.regular = written.regular]
    /\ UNCHANGED nonFlowVars

\* _loopList is never reset: what a call that raised left on it is still
\* there at the next call
WriteCode ==
    LET r == WriteCodeCall(flow)
    IN  /\ Len(flow.loopList) <= MaxStale
        /\ flow' = r.flow
        /\ written' = [op |-> "writeCode", regular |-> written.regular, raised |-> r.raised,
                       startList |-> flow.loopList, trace |-> r.trace, passes |-> r.passes]
        /\ UNCHANGED nonFlowVars

(***************************************************************************)
(* NameSpace.  A name is the sequence of its characters.  The reserved     *)
(* categories are long fixed lists; each is represented by one name that   *)
(* is in it.  "@" stands for a character outside ASCII, on which str()     *)
(* fails.                                                                  *)
(***************************************************************************)
Digits == << "0", "1", "2", "3", "4", "5", "6", "7", "8", "9" >>
IsDigit(c) == c \in Range(Digits)
Letters == {"a", "e", "f", "i", "n", "o", "r", "s", "t", "u", "v"}
\* \w of the regular expressions
IsWordChar(c) == c \in Letters \cup Range(Digits) \cup {"_"}
\* the characters in the order of their codes
CharOrder == << " " >> \o Digits \o << "_", "a", "e", "f", "i", "n", "o", "r", "s", "t",
                                       "u", "v", "@" >>
CharCode(c) == CHOOSE k \in 1..Len(CharOrder) : CharOrder[k] = c

builder == { << "t" >> }
psychopy == { << "o", "s" >> }
numpy == { << "e" >> }
keywords == { << "i", "f" >> }

DigitValue(c) == (CHOOSE k \in 1..10 : Digits[k] = c) - 1

\* str(i) for an int i >= 0
RECURSIVE IntToStr(_)
IntToStr(i) == IF i < 10 THEN << Digits[i + 1] >>
               ELSE IntToStr(i \div 10) \o << Digits[(i % 10) + 1] >>

\* int(count) succeeds; the text holds word characters only
IsInt(count) == count # << >> /\ \A k \in 1..Len(count) : IsDigit(count[k])

RECURSIVE StrToInt(_)
StrToInt(count) ==
    IF Len(count) = 1 THEN DigitValue(count[1])
    ELSE 10 * StrToInt(SubSeq(count, 1, Len(count) - 1)) + DigitValue(count[Len(count)])

\* _valid_var_re : ^[a-zA-Z_][\w]*$
is_valid(name) ==
    /\ name # << >>
    /\ name[1] \in Letters \cup {"_"}
    /\ \A k \in 1..Len(name) : IsWordChar(name[k])

exists(userV, name) ==
    IF name \in Range(userV) THEN "script variable"
    ELSE IF name \in builder THEN "Builder variable"
    ELSE IF name \in psychopy THEN "Psychopy module"
    ELSE IF name \in numpy THEN "numpy function"
    ELSE IF name \in keywords THEN "python keyword"
    ELSE "None"

\* add(name) and remove(name) for a single name and the default sublist
NameAdd(userV, name) == Append(userV, name)
NameRemove(userV, name) == SeqRemoveFirst(userV, name)

\* re.sub(r'\W', '_', name)
ReplaceNonWord(name) == [k \in 1..Len(name) |-> IF IsWordChar(name[k]) THEN name[k] ELSE "_"]

StrConverts(name) == "@" \notin Range(name)

\* name.rsplit('_', 1) of a name that holds an underscore
LastUnderscore(name) ==
    CHOOSE k \in 1..Len(name) : name[k] = "_" /\ \A j \in (k + 1)..Len(name) : name[j] # "_"

\* while self.exists(name): name = name_orig + str(i); i += 1
RECURSIVE BruteForce(_, _, _, _)
BruteForce(userV, name, name_orig, i) ==
    IF exists(userV, name) = "None" THEN name
    ELSE BruteForce(userV, name_orig \o IntToStr(i), name_orig, i + 1)

FirstSuffix == 2

make_valid(userV, given) ==
    LET prefix == IF StrConverts(given) THEN << "v", "a", "r" >> ELSE << "u", "n", "i" >>
        name1 == IF given = << >> THEN prefix \o << "_", "1" >> ELSE given
        name2 == IF IsDigit(name1[1]) THEN prefix \o << "_" >> \o name1 ELSE name1
        name3 == ReplaceNonWord(name2)
        split == exists(userV, name3) # "None" /\ "_" \in Range(name3)
        k == LastUnderscore(name3)
        basename == SubSeq(name3, 1, k - 1)
        count == SubSeq(name3, k + 1, Len(name3))
        counted == split /\ IsInt(count)
        i == IF counted THEN StrToInt(count) ELSE FirstSuffix
        name4 == IF counted THEN basename ELSE name3
    IN  BruteForce(userV, name4, name4 \o << "_" >>, i)

\* the names of a list in sorted order
RECURSIVE NameLess(_, _)
NameLess(a, b) ==
    IF a = << >> THEN b # << >>
    ELSE IF b = << >> THEN FALSE
    ELSE IF a[1] # b[1] THEN CharCode(a[1]) < CharCode(b[1])
    ELSE NameLess(Tail(a), Tail(b))

RECURSIVE Sorted(_)
Sorted(names) ==
    IF names = << >> THEN << >>
    ELSE LET least == CHOOSE k \in 1..Len(names) :
                        \A j \in 1..Len(names) : ~NameLess(names[j], names[k])
         IN  << names[least] >> \o
             Sorted(SubSeq(names, 1, least - 1) \o SubSeq(names, least + 1, Len(names)))

\* get_collisions.  list(set(...)) gives the names of the set in an order
\* the language does not fix: order is any listing of them.
Collided(userV) == Range(userV) \cap (builder \cup psychopy \cup numpy)

Listings(S) == { l \in [1..Cardinality(S) -> S] : Range(l) = S }

RepeatedInSorted(userV) ==
    LET su == Sorted(userV)
        keep(k) == k < Len(su) /\ su[k + 1] = su[k]
    IN  SelectSeq([k \in 1..Len(su) |-> << k, su[k] >>], LAMBDA p : keep(p[1]))

get_collisions(userV, order) ==
    LET rep == RepeatedInSorted(userV)
        duplicates == order \o [k \in 1..Len(rep) |-> rep[k][2]]
    IN  IF duplicates # << >> THEN [none |-> FALSE, list |-> duplicates]
        ELSE [none |-> TRUE, list |-> << >>]

\* a run: successive make_valid calls for one name, each result added to
\* the user names; fresh tells whether the name was unclaimed at its start
NoRun == [given |-> << >>, fresh |-> FALSE, rets |-> << >>]
NameCall(op, given, ret, pre, run) ==
    [op |-> op, given |-> given, ret |-> ret, pre |-> pre, run |-> run]
NoReturn == [none |-> TRUE, list |-> << >>]

InitNameSpace ==
    /\ user = << >>
    /\ nsCall = NameCall("none", << >>, NoReturn, << >>, NoRun)

\* add_to_space is None (FALSE) or 'default', the user names (TRUE)
MakeValid(given, add_to_space) ==
    LET name == make_valid(user, given)
        continues == nsCall.op = "make_valid" /\ nsCall.run.given = given
                     /\ nsCall.run.rets # << >>
        run == IF ~add_to_space THEN NoRun
               ELSE IF continues THEN [nsCall.run EXCEPT !.rets = Append(@, name)]
               ELSE [given |-> given, fresh |-> exists(user, given) = "None",
                     rets |-> << name >>]
    IN  /\ add_to_space => Len(user) < MaxUser
        /\ user' = IF add_to_space THEN NameAdd(user, name) ELSE user
        /\ nsCall' = NameCall("make_valid", given, [none |-> FALSE, list |-> << name >>],
                              user, run)
        /\ UNCHANGED nonNameVars

NsAdd(name) ==
    /\ Len(user) < MaxUser
    /\ user' = NameAdd(user, name)
    /\ nsCall' = NameCall("add", name, NoReturn, user, NoRun)
    /\ UNCHANGED nonNameVars

NsRemove(name) ==
    /\ user' = NameRemove(user, name)
    /\ nsCall' = NameCall("remove", name, NoReturn, user, NoRun)
    /\ UNCHANGED nonNameVars

GetCollisions(order) ==
    /\ order \in Listings(Collided(user))
    /\ user' = user
    /\ nsCall' = NameCall("get_collisions", << >>, get_collisions(user, order), user, NoRun)
    /\ UNCHANGED nonNameVars

(***************************************************************************)
(* Experiment.loadFromXML, from the Routines node on.  A file is the list  *)
(* of its routine nodes' names and the list of its Flow node's elements,   *)
(* each a tag and a stored name.  Routines hold no components and loops no *)
(* trialListFile.  A loop handler is an object; its identity is the        *)
(* position of the LoopInitiator element it was made for.  A dict is a     *)
(* function from its keys.                                                 *)
(***************************************************************************)
Element(tag, name) == [tag |-> tag, name |-> name]
EmptyDict == [k \in {} |-> 0]
DictSet(d, key, value) ==
    [k \in (DOMAIN d) \cup {key} |-> IF k = key THEN value ELSE d[k]]

\* for routineNode in routinesNode, on st = [user, modified, routines]
RECURSIVE FetchRoutines(_, _, _)
FetchRoutines(names, i, st) ==
    IF i > Len(names) THEN st
    ELSE LET routine_good_name == make_valid(st.user, names[i])
         IN  FetchRoutines(names, i + 1,
                 [st EXCEPT !.modified = IF routine_good_name # names[i]
                                         THEN Append(@, names[i]) ELSE @,
                            !.user = Append(@, routine_good_name),
                            !.routines = DictSet(@, names[i], routine_good_name)])

\* one element of the Flow node
FetchFlowElement(st, elementNode, i) ==
    IF elementNode.tag = "LoopInitiator"
    THEN LET loopName == make_valid(st.user, elementNode.name)
         IN  [st EXCEPT !.modified = IF loopName # elementNode.name
                                     THEN Append(@, elementNode.name) ELSE @,
                        !.user = NameAdd(@, loopName),
                        !.loops = DictSet(@, loopName, i),
                        !.made = Append(@, [id |-> i, stored |-> elementNode.name,
                                            name |-> loopName]),
                        !.entries = Append(@, LoopInitiator(i))]
    ELSE IF elementNode.tag = "LoopTerminator"
    THEN IF elementNode.name \in DOMAIN st.loops
         THEN [st EXCEPT !.entries = Append(@, LoopTerminator(st.loops[elementNode.name]))]
         ELSE [st EXCEPT !.raised = TRUE]
    ELSE IF elementNode.name \in DOMAIN st.routines
         THEN [st EXCEPT !.entries = Append(@, Routine(st.routines[elementNode.name]))]
         ELSE [st EXCEPT !.raised = TRUE]

RECURSIVE FetchFlow(_, _, _)
FetchFlow(elements, i, st) ==
    IF i > Len(elements) \/ st.raised THEN st
    ELSE FetchFlow(elements, i + 1, FetchFlowElement(st, elements[i], i))

LoadFromXMLCall(file) ==
    LET fresh == [user |-> << >>, modified |-> << >>, routines |-> EmptyDict]
        r == FetchRoutines(file.routines, 1, fresh)
        start == [user |-> r.user, modified |-> r.modified, routines |-> r.routines,
                  loops |-> EmptyDict, made |-> << >>, entries |-> << >>,
                  raised |-> FALSE]
    IN  FetchFlow(file.flow, 1, start)

NoFile == [routines |-> << >>, flow |-> << >>]

InitXml == xml = [op |-> "none", file |-> NoFile, result |-> LoadFromXMLCall(NoFile)]

LoadFromXML(file) ==
    /\ xml' = [op |-> "loadFromXML", file |-> file, result |-> LoadFromXMLCall(file)]
    /\ UNCHANGED nonXmlVars

(***************************************************************************)
(* Routine of the builder's experiment: a list of components, each with a  *)
(* params mapping.  The values of 'startTime' and 'duration' are the texts *)
(* typed into the dialog.                                                  *)
(***************************************************************************)

\* psychopy.constants.FOREVER
FOREVER == 1000000000

\* the texts of a start time and of a duration
StartVals == { "", "$x", "0", "1" }
DurationVals == { "-1", "", "$x", "1", "2" }

\* a component with timing parameters, and one without any
TimedComponent(startTime, duration) ==
    [timed |-> TRUE, startTime |-> startTime, duration |-> duration]
UntimedComponent == [timed |-> FALSE, startTime |-> "", duration |-> ""]
Components ==
    { TimedComponent(s, d) : s \in StartVals, d \in DurationVals } \cup { UntimedComponent }

\* the number a literal text evaluates to under exec
Number(val) ==
    CASE val = "0" -> 0
      [] val = "1" -> 1
      [] val = "2" -> 2
      [] val = "-1" -> -1

\* val[0] of a text: the empty text has no first character (IndexError)
HasFirst(val) == val # ""
First(val) == IF val = "$x" THEN "$" ELSE val

\* max(times)
MaxOf(times) ==
    CHOOSE m \in Range(times) : \A k \in 1..Len(times) : times[k] <= m

\* one pass of the loop of getMaxTime over event
GetMaxTimeStep(st, event) ==
    IF st.raised \/ ~event.timed THEN st
    ELSE IF event.duration \in { "-1", "" }
    THEN LET times == Append(st.times, FOREVER)
         IN  [st EXCEPT !.times = times, !.maxTime = MaxOf(times)]
    ELSE IF ~HasFirst(event.startTime)
    THEN [st EXCEPT !.raised = TRUE]
    ELSE IF "$" \in { First(event.startTime), First(event.duration) }
    THEN LET times == Append(st.times, FOREVER)
         IN  [st EXCEPT !.times = times, !.maxTime = MaxOf(times)]
    ELSE LET times == Append(st.times, Number(event.startTime) + Number(event.duration))
         IN  [st EXCEPT !.times = times, !.maxTime = MaxOf(times)]

RECURSIVE GetMaxTimeLoop(_, _)
GetMaxTimeLoop(st, events) ==
    IF events = << >> THEN st
    ELSE GetMaxTimeLoop(GetMaxTimeStep(st, Head(events)), Tail(events))

\* Routine.getMaxTime(): the value returned, or raised when a pass raised
GetMaxTimeCall(self) ==
    LET st == GetMaxTimeLoop([maxTime |-> 0, times |-> << >>, raised |-> FALSE], self)
    IN  [maxTime |-> st.maxTime, raised |-> st.raised]

\* no call of getMaxTime was made on the routine as it is
NotAsked == [asked |-> FALSE, maxTime |-> 0, raised |-> FALSE]

InitRoutine == routine = [components |-> << >>, got |-> NotAsked]

\* Routine.addComponent(component)
AddComponent(component) ==
    /\ Len(routine.components) < MaxComponents
    /\ routine' = [components |-> Append(routine.components, component), got |-> NotAsked]
    /\ UNCHANGED nonRoutineVars

\* Routine.getMaxTime()
GetMaxTime ==
    /\ routine' = [routine EXCEPT !.got =
                      [asked |-> TRUE,
                       maxTime |-> GetMaxTimeCall(routine.components).maxTime,
                       raised |-> GetMaxTimeCall(routine.components).raised]]
    /\ UNCHANGED nonRoutineVars

(***************************************************************************)
(* dollarSyntax of the component parameter model.  A value is the text of  *)
(* a parameter, a sequence of characters.                                  *)
(***************************************************************************)

\* the characters a value is made of, and the declared types
ValChars == { "$", "\\", "x", "'", "#" }
ValTypes == { "str", "num", "code" }

\* re.sub(r"[\"'].*[\"']", "_", activeVal): the match runs from the first
\* quote character to the last one
StripStrings(activeVal) ==
    LET quotes == { i \in 1..Len(activeVal) : activeVal[i] = "'" }
        first == CHOOSE i \in quotes : \A j \in quotes : i <= j
        final == CHOOSE i \in quotes : \A j \in quotes : j <= i
    IN  IF Cardinality(quotes) < 2 THEN activeVal
        ELSE SubSeq(activeVal, 1, first - 1) \o << "_" >>
                 \o SubSeq(activeVal, final + 1, Len(activeVal))

\* re.sub(r"#.*", "_", activeVal)
StripComments(activeVal) ==
    LET hashes == { i \in 1..Len(activeVal) : activeVal[i] = "#" }
        first == CHOOSE i \in hashes : \A j \in hashes : i <= j
    IN  IF hashes = {} THEN activeVal
        ELSE SubSeq(activeVal, 1, first - 1) \o << "_" >>

\* utils.unescaped_re at position i of text: no backslash stands before it
UnescapedAt(text, i) == i = 1 \/ text[i - 1] # "\\"

\* re.finditer(utils.unescaped_re + r"\$", activeVal): where the matches start
UnescapedDollars(activeVal) ==
    { i \in 1..Len(activeVal) : activeVal[i] = "$" /\ UnescapedAt(activeVal, i) }

\* a variant that takes every value for code
AlwaysCode(unescapedDollars, valType) == "code"

\* the type after the scan
NewType(unescapedDollars, valType) ==
    IF unescapedDollars # {} THEN "code" ELSE valType

\* val with the characters at the positions of the matches replaced by the
\* delete marker, and the markers then removed
RECURSIVE RemoveMarked(_, _, _)
RemoveMarked(val, matches, i) ==
    IF i > Len(val) THEN << >>
    ELSE (IF i \in matches THEN << >> ELSE << val[i] >>) \o RemoveMarked(val, matches, i + 1)

\* dollarSyntax(val, valType) for a val that is a string
DollarSyntaxCall(val, valType) ==
    LET activeVal == StripComments(StripStrings(val))
        unescapedDollars == UnescapedDollars(activeVal)
    IN  [val |-> RemoveMarked(val, unescapedDollars, 1),
         valType |-> NewType(unescapedDollars, valType)]

InitDollar == dollar = [val |-> << >>, valType |-> "str", out |-> DollarSyntaxCall(<< >>, "str")]

\* dollarSyntax(val, valType)
DollarSyntax(val, valType) ==
    /\ dollar' = [val |-> val, valType |-> valType, out |-> DollarSyntaxCall(val, valType)]
    /\ UNCHANGED nonDollarVars

(***************************************************************************)
(* TextBox2 and its Caret.  The text is a sequence of characters and       *)
(* caret.index a Python index into it (counted from 0).  The box is taken  *)
(* wide enough that _layout breaks lines at "\n" only.                     *)
(***************************************************************************)

\* the characters the window passes to _onText, and the cursor keys
TypedChars == { "x", "\r", "\t" }
CursorKeys ==
    { "MOTION_UP", "MOTION_DOWN", "MOTION_RIGHT", "MOTION_LEFT", "MOTION_BACKSPACE",
      "MOTION_DELETE", "MOTION_NEXT_WORD", "MOTION_BEGINNING_OF_LINE", "MOTION_END_OF_LINE" }

\* the Python slices s[:i] and s[i:]
PyStop(s, i) == IF i < 0 THEN (IF Len(s) + i < 0 THEN 0 ELSE Len(s) + i)
                ELSE (IF i > Len(s) THEN Len(s) ELSE i)
SliceTo(s, i) == SubSeq(s, 1, PyStop(s, i))
SliceFrom(s, i) == SubSeq(s, PyStop(s, i) + 1, Len(s))

\* _layout lays out text + "\n": len(_lineNs), _lineNs[i], len(_lineLenChars),
\* _lineLenChars[row] and sum(_lineLenChars[:row])
GlyphCount(text) == Len(text) + 1
LineN(text, i) == Cardinality({ k \in 1..i : text[k] = "\n" })
LineCount(text) == LineN(text, Len(text)) + 1
LineLenChars(text, row) == Cardinality({ i \in 0..Len(text) : LineN(text, i) = row })
CharsBefore(text, row) == Cardinality({ i \in 0..Len(text) : LineN(text, i) < row })

\* the getter of Caret.row: index is cut at the top only, a negative index
\* counts from the end of _lineNs and raises IndexError beyond its start
RowGet(text, index) ==
    LET n == GlyphCount(text)
        cut == IF index >= n THEN n - 1 ELSE index
    IN  [index |-> cut,
         raised |-> cut < -n,
         row |-> IF cut < -n THEN 0
                 ELSE IF cut < 0 THEN LineN(text, n + cut) ELSE LineN(text, cut)]

\* the index check of Caret.char and of Caret.vertices
IndexInRange(text, index) ==
    IF index > GlyphCount(text) - 1 THEN GlyphCount(text) - 1
    ELSE IF index < 0 THEN 0 ELSE index

\* the getter of Caret.char
CharGet(text, index) ==
    LET inRange == IndexInRange(text, index)
    IN  [index |-> inRange,
         char |-> inRange - CharsBefore(text, RowGet(text, inRange).row)]

\* Caret.draw(): the vertices, and with them the check, are computed only
\* when the caret is visible and in the lit part of its flashing
CaretDraw(text, index, lit) == IF lit THEN IndexInRange(text, index) ELSE index

\* the setter of Caret.row
RowSet(text, index, value, lit) ==
    LET c == CharGet(text, index)
        beyond == value >= LineCount(text)
        v1 == IF beyond THEN LineCount(text) - 1 ELSE value
        c1 == IF beyond THEN LineLenChars(text, v1) - 1 ELSE c.char
        v2 == IF v1 < 0 THEN 0 ELSE v1
        c2 == IF v1 < 0 THEN 0 ELSE c1
        c3 == IF c2 > LineLenChars(text, v2) THEN LineLenChars(text, v2) - 1 ELSE c2
    IN  CaretDraw(text, CharsBefore(text, v2) + c3, lit)

\* self.caret.row += by
RowMove(tb0, by, lit) ==
    LET g == RowGet(tb0.text, tb0.index)
    IN  IF g.raised THEN [tb0 EXCEPT !.raised = TRUE]
        ELSE [tb0 EXCEPT !.index = RowSet(tb0.text, g.index, g.row + by, lit)]

\* the setter of Caret.char: the sum of a list and a number at its end
\* raises TypeError on every path
CharSet(tb0, value, lit) ==
    LET g == RowGet(tb0.text, tb0.index)
    IN  IF g.raised THEN [tb0 EXCEPT !.raised = TRUE]
        ELSE IF value < 0 /\ g.row # 0
        THEN LET moved == RowSet(tb0.text, g.index, g.row - 1, lit)
             IN  [tb0 EXCEPT !.index = RowGet(tb0.text, moved).index, !.raised = TRUE]
        ELSE [tb0 EXCEPT !.index = g.index, !.raised = TRUE]

\* TextBox2._onText(chr)
OnTextCall(tb0, chr) ==
    IF chr = "\t" THEN tb0
    ELSE LET c == IF chr = "\r" THEN "\n" ELSE chr
         IN  [tb0 EXCEPT !.text = SliceTo(tb0.text, tb0.index) \o << c >>
                                      \o SliceFrom(tb0.text, tb0.index),
                         !.index = @ + 1]

\* TextBox2._onCursorKeys(key)
OnCursorKeysCall(tb0, key, lit) ==
    CASE key = "MOTION_UP" -> RowMove(tb0, -1, lit)
      [] key = "MOTION_DOWN" -> RowMove(tb0, 1, lit)
      [] key = "MOTION_RIGHT" -> [tb0 EXCEPT !.index = @ + 1]
      [] key = "MOTION_LEFT" -> [tb0 EXCEPT !.index = @ - 1]
      [] key = "MOTION_BACKSPACE" ->
            [tb0 EXCEPT !.text = SliceTo(tb0.text, tb0.index - 1)
                                     \o SliceFrom(tb0.text, tb0.index),
                        !.index = @ - 1]
      [] key = "MOTION_DELETE" ->
            [tb0 EXCEPT !.text = SliceTo(tb0.text, tb0.index)
                                     \o SliceFrom(tb0.text, tb0.index + 1)]
      [] key = "MOTION_BEGINNING_OF_LINE" -> CharSet(tb0, 0, lit)
      [] key = "MOTION_END_OF_LINE" -> CharSet(tb0, -1, lit)
      [] OTHER -> tb0

\* a box with no text: Caret.__init__ puts the index at len(text)
NewTextBox == [text |-> << >>, index |-> 0, raised |-> FALSE]

InitTextBox == tb = [box |-> NewTextBox, event |-> "none", before |-> NewTextBox]

\* the window passes chr to _onText
OnText(chr) ==
    /\ chr = "\t" \/ Len(tb.box.text) < MaxText
    /\ tb' = [box |-> OnTextCall([tb.box EXCEPT !.raised = FALSE], chr),
              event |-> "text", before |-> tb.box]
    /\ UNCHANGED nonTextBoxVars

\* the window passes key to _onCursorKeys; the index stays within MaxOut of
\* the text and the text within MaxText characters
OnCursorKeys(key, lit) ==
    /\ Len(OnCursorKeysCall(tb.box, key, lit).text) <= MaxText
    /\ key = "MOTION_RIGHT" => tb.box.index < GlyphCount(tb.box.text) + MaxOut
    /\ key \in { "MOTION_LEFT", "MOTION_BACKSPACE" } => tb.box.index > -MaxOut
    /\ tb' = [box |-> OnCursorKeysCall([tb.box EXCEPT !.raised = FALSE], key, lit),
              event |-> key, before |-> tb.box]
    /\ UNCHANGED nonTextBoxVars

\* TextBox2.draw() while the box has the focus: the caret is drawn
DrawTextBox(lit) ==
    /\ tb' = [box |-> [tb.box EXCEPT !.index = CaretDraw(tb.box.text, @, lit), !.raised = FALSE],
              event |-> "draw", before |-> tb.box]
    /\ UNCHANGED nonTextBoxVars

(***************************************************************************)
(* setAttribute of the attribute tools.  The object has the plain          *)
(* attribute autoLog and the attribute size, which has an attributeSetter; *)
(* its decorated function may raise.                                       *)
(***************************************************************************)

\* the values passed for size, the operations and the values of log
Text == [isStr |-> TRUE, n |-> 0]
Num(n) == [isStr |-> FALSE, n |-> n]
SizeValues == { Text, Num(0), Num(1) }
Operations == { "False", "", "+", "x" }
LogValues == { "None", "True", "False" }

\* the value after the operation: a record with the value, or raised
Operate(oldValue, value, operation) ==
    IF operation = "False" THEN [raised |-> FALSE, value |-> value]
    ELSE IF ~value.isStr /\ ~oldValue.isStr
    THEN CASE operation = "" -> [raised |-> FALSE, value |-> Num(oldValue.n * 0 + value.n)]
           [] operation = "+" -> [raised |-> FALSE, value |-> Num(oldValue.n + value.n)]
           [] OTHER -> [raised |-> TRUE, value |-> value]
    ELSE IF operation # "" THEN [raised |-> TRUE, value |-> value]
    ELSE [raised |-> FALSE, value |-> value]

\* log or autoLogOrig and log is None, log being a truth value by then
DesiredLog(log, autoLogOrig) == log \/ (autoLogOrig /\ FALSE)

\* setAttribute(self, 'size', value, log, operation, stealth); setterRaises
\* tells whether the function behind the attributeSetter raises
SetAttributeCall(self, value, log, operation, stealth, setterRaises) ==
    LET log1 == IF log = "None" THEN self.autoLog ELSE log = "True"
        op == Operate(self.size, value, operation)
        autoLogOrig == self.autoLog
        during == [self EXCEPT !.autoLog = DesiredLog(log1, autoLogOrig)]
    IN  IF op.raised THEN [obj |-> self, raised |-> TRUE]
        ELSE IF stealth THEN [obj |-> [self EXCEPT !.size = op.value], raised |-> FALSE]
        ELSE IF setterRaises THEN [obj |-> during, raised |-> TRUE]
        ELSE [obj |-> [during EXCEPT !.size = op.value, !.autoLog = autoLogOrig],
              raised |-> FALSE]

\* setAttribute(self, 'autoLog', value, log, stealth=stealth): autoLog is
\* assigned and not set back
SetAutoLogCall(self, value, log, stealth) ==
    [obj |-> [self EXCEPT !.autoLog = value], raised |-> FALSE]

\* an object that logs, and no call made on it
NewObject == [autoLog |-> TRUE, size |-> Num(0)]
NoSetCall == [attrib |-> "none", log |-> "None", stealth |-> FALSE, raised |-> FALSE]

InitAttribute == stim = [obj |-> NewObject, before |-> NewObject, call |-> NoSetCall]

\* setAttribute(obj, 'size', value, log, operation, stealth)
SetAttribute(value, log, operation, stealth, setterRaises) ==
    LET done == SetAttributeCall(stim.obj, value, log, operation, stealth, setterRaises)
    IN  /\ done.obj.size.n <= MaxSize
        /\ stim' = [obj |-> done.obj, before |-> stim.obj,
                    call |-> [attrib |-> "size", log |-> log, stealth |-> stealth,
                              raised |-> done.raised]]
        /\ UNCHANGED nonAttributeVars

\* setAttribute(obj, 'autoLog', value, log, stealth=stealth)
SetAutoLog(value, log, stealth) ==
    LET done == SetAutoLogCall(stim.obj, value, log, stealth)
    IN  /\ stim' = [obj |-> done.obj, before |-> stim.obj,
                    call |-> [attrib |-> "autoLog", log |-> log, stealth |-> stealth,
                              raised |-> done.raised]]
        /\ UNCHANGED nonAttributeVars

(***************************************************************************)
(* The package manager of the app: installPackage, uninstallPackage,       *)
(* PackageListCtrl.execute and the PackageDetailsPanel, for one package    *)
(* "p" with the releases "1" and "2".  A pip process ends with a return    *)
(* code and may have written to standard error; with return code 0 it has  *)
(* done what it was asked to.                                              *)
(***************************************************************************)

\* the releases pypi lists, the return codes and whether stderr is non-empty
Releases == << "1", "2" >>
ReturnCodes == { 0, 1 }
PipModes == { "install", "uninstall" }

\* the version of the package in the environment after pip ran
AfterPip(installed, mode, version, returncode) ==
    IF returncode # 0 THEN installed
    ELSE IF mode = "install" THEN version ELSE "None"

\* the dialog of installPackage and of uninstallPackage
DialogByCode(returncode) == IF returncode # 0 THEN "error" ELSE "success"

\* the dialog of PackageListCtrl.execute
DialogByStderr(stderr) == IF stderr THEN "error" ELSE "success"

\* onVersion(): the state given to the Install button
OnVersionEnable(panel) ==
    [panel EXCEPT !.enabled = (panel.selection # panel.version /\ panel.package # "None")]

\* the setter of PackageDetailsPanel.package
SetPackage(panel, pipname, installed) ==
    LET version == IF pipname = "None" THEN "None" ELSE installed
        releases == IF pipname = "None" THEN << >> ELSE Releases
        strings == IF version = "None" \/ version \in Range(releases)
                   THEN releases ELSE Append(releases, version)
        selection == IF version # "None" THEN version
                     ELSE IF strings = << >> THEN "" ELSE strings[1]
    IN  OnVersionEnable([package |-> pipname, version |-> version, strings |-> strings,
                         selection |-> selection, enabled |-> pipname # "None"])

\* the panel as __init__ leaves it, and no dialog shown
NewPanel == SetPackage([package |-> "None", version |-> "None", strings |-> << >>,
                        selection |-> "", enabled |-> FALSE], "None", "None")
NoDialog == [by |-> "none", returncode |-> 0, stderr |-> FALSE, shown |-> "none"]

InitPackages ==
    pkg = [installed |-> "None", panel |-> NewPanel, dialog |-> NoDialog, event |-> "none"]

\* an item of the list is selected (or none is): details.package = pipname
SelectPackage(pipname) ==
    /\ pkg' = [pkg EXCEPT !.panel = SetPackage(pkg.panel, pipname, pkg.installed),
                          !.event = "package"]
    /\ UNCHANGED nonPackagesVars

\* a version is chosen in versionCtrl: onVersion
ChooseVersion(version) ==
    /\ pkg.panel.package # "None"
    /\ version \in Range(pkg.panel.strings)
    /\ pkg' = [pkg EXCEPT !.panel = OnVersionEnable([pkg.panel EXCEPT !.selection = version]),
                          !.event = "version"]
    /\ UNCHANGED nonPackagesVars

\* the Install button is clicked: PackageDetailsPanel.onInstall
ClickInstall(returncode, stderr) ==
    /\ pkg.panel.enabled
    /\ pkg' = [installed |-> AfterPip(pkg.installed, "install", pkg.panel.selection, returncode),
               panel |-> [pkg.panel EXCEPT !.enabled = FALSE],
               dialog |-> [by |-> "installPackage", returncode |-> returncode,
                           stderr |-> stderr, shown |-> DialogByCode(returncode)],
               event |-> "install"]
    /\ UNCHANGED nonPackagesVars

\* the list's menu entry Uninstall, confirmed: uninstallPackage(pipname)
ListUninstall(returncode, stderr) ==
    /\ pkg.installed # "None"
    /\ pkg' = [pkg EXCEPT !.installed = AfterPip(pkg.installed, "uninstall", "None", returncode),
                          !.dialog = [by |-> "uninstallPackage", returncode |-> returncode,
                                      stderr |-> stderr, shown |-> DialogByCode(returncode)],
                          !.event = "list"]
    /\ UNCHANGED nonPackagesVars

\* PackageListCtrl.execute(params) with params "install p==version" or
\* "uninstall p"
Execute(mode, version, returncode, stderr) ==
    /\ pkg' = [pkg EXCEPT !.installed = AfterPip(pkg.installed, mode, version, returncode),
                          !.dialog = [by |-> "execute", returncode |-> returncode,
                                      stderr |-> stderr, shown |-> DialogByStderr(stderr)],
                          !.event = "list"]
    /\ UNCHANGED nonPackagesVars

(***************************************************************************)
(* Form._doLayout.  Heights are counted in a unit of which textHeight is   *)
(* two, so that the half of a response height is a whole number.           *)
(***************************************************************************)

\* Form.textHeight and Form.itemPadding
TextHeight == 2
ItemPadding == 1

\* the heights of the bounding box of a question, and the items of a form
QHeights == { 1, 4, 7 }
FormItems ==
    [aLayout : { "horiz", "vert" }, nOptions : 1..MaxOptions, qHeight : QHeights]

\* Form.getRespHeight(item)
GetRespHeight(item) ==
    IF item.aLayout = "vert" THEN item.nOptions * TextHeight ELSE TextHeight

\* a variant that takes the height of the question for the height of the row
QuestionOnly(aHeight, qHeight) == qHeight

\* max(aHeight, qHeight)
Larger(aHeight, qHeight) == IF aHeight >= qHeight THEN aHeight ELSE qHeight

\* one pass of the loop of _doLayout over item
DoLayoutStep(form0, item) ==
    LET qHeight == item.qHeight
        aHeight == GetRespHeight(item)
    IN  [form0 EXCEPT
            !.baseYpositions = Append(@, form0.virtualHeight - Larger(aHeight, qHeight)
                                             + (aHeight \div 2) - TextHeight),
            !.virtualHeight = @ - (Larger(aHeight, qHeight) + ItemPadding)]

RECURSIVE DoLayoutLoop(_, _)
DoLayoutLoop(form0, items) ==
    IF items = << >> THEN form0
    ELSE DoLayoutLoop(DoLayoutStep(form0, Head(items)), Tail(items))

\* Form.__init__ with items: _baseYpositions is empty and virtualHeight 0
\* when _doLayout runs
NewForm(items) ==
    DoLayoutLoop([items |-> items, baseYpositions |-> << >>, virtualHeight |-> 0], items)

InitForm == form = NewForm(<< >>)

\* a Form is made of the items of the last one and one more
MakeForm(item) ==
    /\ Len(form.items) < MaxItems
    /\ form' = NewForm(Append(form.items, item))
    /\ UNCHANGED nonFormVars

(***************************************************************************)
(* Flow.removeComponent.  The handler of loop 1 is a TrialHandler, that of *)
(* loop 2 a MultiStairHandler and that of loop 3 a StairHandler.  A for    *)
(* loop over a list looks at the positions 0, 1, 2, ... of the list as it  *)
(* is when each position is reached.                                       *)
(***************************************************************************)

\* getType() of the handler of a loop
HandlerType(loop) ==
    CASE loop % 3 = 1 -> "TrialHandler"
      [] loop % 3 = 2 -> "MultiStairHandler"
      [] OTHER -> "StairHandler"

\* del self[i] (i counted from 0)
DelAt(entries, i) == SubSeq(entries, 1, i) \o SubSeq(entries, i + 2, Len(entries))

\* the loop of lines 685-687 from position i on
RECURSIVE RemoveLoopEntries(_, _, _)
RemoveLoopEntries(entries, loop, i) ==
    IF i >= Len(entries) THEN entries
    ELSE IF entries[i + 1].type \in { "LoopInitiator", "LoopTerminator" }
            /\ entries[i + 1].ref = loop
    THEN RemoveLoopEntries(DelAt(entries, i), loop, i + 1)
    ELSE RemoveLoopEntries(entries, loop, i + 1)

\* the loop of lines 692-693 from position i on
RECURSIVE RemoveRoutineEntries(_, _, _)
RemoveRoutineEntries(entries, name, i) ==
    IF i >= Len(entries) THEN entries
    ELSE IF entries[i + 1].type = "Routine" /\ entries[i + 1].ref = name
    THEN RemoveRoutineEntries(DelAt(entries, i), name, i + 1)
    ELSE RemoveRoutineEntries(entries, name, i + 1)

\* what removeComponent is given: a handler, or an entry of a Flow
Handler(loop) == [type |-> "Handler", ref |-> loop]
NoId == 0 - 1

\* Flow.removeComponent(component, id); id is NoId for None
RemoveComponentCall(entries, component, id) ==
    IF component.type \in { "LoopInitiator", "LoopTerminator", "Handler" }
    THEN IF HandlerType(component.ref) \in { "StairHandler", "TrialHandler" }
         THEN [entries |-> RemoveLoopEntries(entries, component.ref, 0), raised |-> FALSE]
         ELSE [entries |-> entries, raised |-> FALSE]
    ELSE IF id = NoId
    THEN [entries |-> RemoveRoutineEntries(entries, component.ref, 0), raised |-> FALSE]
    ELSE IF id >= Len(entries) THEN [entries |-> entries, raised |-> TRUE]
    ELSE [entries |-> DelAt(entries, id), raised |-> FALSE]

InitEdit == edit = [component |-> NoEntry, id |-> NoId, raised |-> FALSE]

\* Flow.removeComponent(component, id)
RemoveComponent(component, id) ==
    LET done == RemoveComponentCall(flow.entries, component, id)
    IN  /\ flow' = [flow EXCEPT !.entries = done.entries]
        /\ written' = [NoWrite EXCEPT !.op = "removeComponent", !.regular = written.regular]
        /\ edit' = [component |-> component, id |-> id, raised |-> done.raised]
        /\ UNCHANGED nonFlowEditVars

OtherPartsAtStart ==
    /\ InitXml
    /\ InitRoutine
    /\ InitDollar
    /\ InitTextBox
    /\ InitAttribute
    /\ InitPackages
    /\ InitForm
    /\ InitEdit

(***************************************************************************)
(* Specifications.  Each one lets a session scan and load some of the      *)
(* plugins of the environment.                                             *)
(***************************************************************************)
\* plugins that load, one that is forbidden, and a name that is none
LoadNames == {"good", "shadow", "forbid", Ghost}
Next ==
    \/ \E found \in Environments : ScanPlugins(found)
    \/ \E p \in LoadNames, a \in ArgValues : LoadPlugin(p, a)
    \/ \E w \in ListWhich : ListPluginsQuery(w)
Init ==
    /\ InitPlugins
    /\ InitLast
    /\ InitChecksum
    /\ RingBufferUnused
    /\ TrackerUnused
    /\ InitFlow
    /\ InitNameSpace
    /\ OtherPartsAtStart
Spec == Init /\ [][Next]_vars

\* plugins that fail in validation after an entry point validated
FailNames == {"partial", "noimp", "forbid", "rootforbid", "badreg"}
NextFail ==
    \/ \E found \in {Dists} : ScanPlugins(found)
    \/ \E p \in FailNames, a \in {"args1"} : LoadPlugin(p, a)
SpecFail == Init /\ [][NextFail]_vars

\* names that are no plugin, a plugin that loads and one that does not
InvalidNames == {Ghost, "other", "good", "badep"}
NextInvalid ==
    \/ \E found \in Environments : ScanPlugins(found)
    \/ \E p \in InvalidNames, a \in {"args1"} : LoadPlugin(p, a)
SpecInvalid == Init /\ [][NextInvalid]_vars


\* a ring buffer of any capacity, over any memory, appended to and cleared
NextRingBuffer ==
    \/ \E element \in Elements : RbAppend(element)
    \/ RbClear
InitRing ==
    /\ InitPlugins
    /\ InitLast
    /\ InitChecksum
    /\ InitRingBuffer
    /\ TrackerUnused
    /\ InitFlow
    /\ InitNameSpace
    /\ OtherPartsAtStart
SpecRingBuffer == InitRing /\ [][NextRingBuffer]_vars

(***************************************************************************)
(* What the claims speak of                                                *)
(***************************************************************************)
IsLoadCall == last.op = "loadPlugin"
\* the call found the plugin neither loaded nor missing from the discovered set
IsFreshLoadCall ==
    /\ IsLoadCall
    /\ last.plugin \notin Range(last.pre.loaded)
    /\ last.plugin \in Range(last.pre.installed)
\* no attribute of a target namespace and no registry changed in the call
NothingAssigned ==
    /\ ns = last.pre.nsv
    /\ winTypes = last.pre.wt
    /\ pluginComponents = last.pre.pc
Logged(level) == \E i \in 1..Len(last.log) : last.log[i][1] = level
LoggedWhat(what) == \E i \in 1..Len(last.log) : last.log[i][2] = what

\* the plugin has an entry point into the plugin loader's own namespace
TargetsLoaderNamespace(d) ==
    /\ d \in Dists
    /\ \E i \in 1..Len(EntryMap(d)) :
          \/ EntryMap(d)[i].fqn = "psychopy.plugins"
          \/ /\ EntryMap(d)[i].fqn = "psychopy"
             /\ \E j \in 1..Len(EntryMap(d)[i].eps) : EntryMap(d)[i].eps[j].attr = "plugins"

\* the entry points of d in groups that start with 'psychopy': <<fqn, ep>>
PsychopyEntryPoints(d) ==
    IF d \notin Dists THEN {}
    ELSE UNION { { <<EntryMap(d)[i].fqn, EntryMap(d)[i].eps[j]>> :
                     j \in 1..Len(EntryMap(d)[i].eps) } :
                 i \in { k \in 1..Len(EntryMap(d)) :
                           StartsWithPsychopy(EntryMap(d)[k].fqn) } }

\* every entry point of d validates: no group is forbidden or unreachable, every
\* module imports, every __register__ is usable, every entry point loads
Validates(d) ==
    /\ d \in Dists
    /\ AnyPsychopyGroup(EntryMap(d))
    /\ ~TargetsLoaderNamespace(d)
    /\ \A e \in PsychopyEntryPoints(d) :
          /\ Resolvable(e[1])
          /\ Importable(e[2].mod)
          /\ Register(e[2].mod) \notin {"strbad", "badtype"}
          /\ e[2].obj # ""

\* the number of __register__ calls the call made into module m with arguments a
HookCalls(m, a) == Cardinality({ i \in 1..Len(last.hooks) : last.hooks[i] = <<m, a>> })

(***************************************************************************)
(* C1  A loadPlugin call that returns False has assigned no attribute in   *)
(* any target namespace (nor registered a backend or component), and the   *)
(* plugin is not in the loaded set; this includes calls in which an        *)
(* earlier entry point of the plugin had validated before the failure.     *)
(***************************************************************************)
C1_FailedLoadAssignsNothing ==
    (IsLoadCall /\ last.ret = "False") =>
        /\ NothingAssigned
        /\ last.plugin \notin Range(loadedPlugins)

\* a call fails on a missing namespace after an entry point validated
C1_Witness ==
    /\ IsFreshLoadCall
    /\ last.ret = "False"
    /\ last.n >= 1
    /\ LoggedWhat("entry point group does not exist")

(***************************************************************************)
(* C2  When loadPlugin(p) returns True for a plugin p that was in the      *)
(* failed list before the call, p is not in the failed list afterwards.    *)
(***************************************************************************)
C2_SuccessClearsFailed ==
    (IsLoadCall /\ last.ret = "True" /\ last.plugin \in Range(last.pre.failed)) =>
        last.plugin \notin Range(failedPlugins)

(***************************************************************************)
(* C3  as stated: for a name that is not in the discovered set, loadPlugin *)
(* returns False and the name is in the failed list afterwards.            *)
(***************************************************************************)
C3_UndiscoveredReturnsFalse ==
    (IsLoadCall /\ last.plugin \notin Range(last.pre.installed)) =>
        /\ last.ret = "False"
        /\ last.plugin \in Range(failedPlugins)

(***************************************************************************)
(* C3  as amended: for a name that is not in the loaded set, and that is   *)
(* not in the discovered set or names a distribution with no group         *)
(* starting with 'psychopy', loadPlugin returns False without raising and  *)
(* the name is in the failed list afterwards.                              *)
(***************************************************************************)
C3_UnloadedUndiscoveredReturnsFalse ==
    ( /\ IsLoadCall
      /\ last.plugin \notin Range(last.pre.loaded)
      /\ \/ last.plugin \notin Range(last.pre.installed)
         \/ last.plugin \in Dists /\ ~AnyPsychopyGroup(EntryMap(last.plugin)) ) =>
        /\ last.ret = "False"
        /\ last.plugin \in Range(failedPlugins)

\* after a scan, a distribution without a 'psychopy' group was asked for
C3_Witness ==
    /\ IsLoadCall
    /\ last.pre.installed # <<>>
    /\ last.plugin = "other"
    /\ last.ret = "False"

(***************************************************************************)
(* C4  as stated: a load of a plugin with an entry point into the plugin   *)
(* loader's namespace ends in an exception raised to the caller.           *)
(***************************************************************************)
C4_ForbiddenRaises ==
    (IsFreshLoadCall /\ TargetsLoaderNamespace(last.plugin)) => last.ret = "raise"

(***************************************************************************)
(* C4  as amended: such a load logs an error, records the plugin in the    *)
(* failed list and returns False, with nothing assigned.                   *)
(***************************************************************************)
C4_ForbiddenReturnsFalse ==
    (IsFreshLoadCall /\ TargetsLoaderNamespace(last.plugin)) =>
        /\ last.ret = "False"
        /\ Logged("error")
        /\ last.plugin \in Range(failedPlugins)
        /\ last.plugin \notin Range(loadedPlugins)
        /\ NothingAssigned

\* the group 'psychopy' with the attribute 'plugins' was refused
C4_Witness ==
    /\ IsFreshLoadCall
    /\ last.plugin = "rootforbid"
    /\ LoggedWhat("entry points into psychopy.plugins are forbidden")

(***************************************************************************)
(* C5  A loadPlugin call for a plugin already in the loaded set returns    *)
(* True, calls no registration hook and leaves the namespaces and the      *)
(* loaded, installed and failed registries as they were.                   *)
(***************************************************************************)
C5_ReloadHasNoEffect ==
    (IsLoadCall /\ last.plugin \in Range(last.pre.loaded)) =>
        /\ last.ret = "True"
        /\ last.hooks = <<>>
        /\ NothingAssigned
        /\ loadedPlugins = last.pre.loaded
        /\ installedPlugins = last.pre.installed
        /\ failedPlugins = last.pre.failed
        /\ sysModules = last.pre.mods

\* a loaded plugin is loaded again after another plugin replaced its attribute
C5_Witness ==
    /\ IsLoadCall
    /\ last.plugin = "good"
    /\ last.plugin \in Range(last.pre.loaded)
    /\ ns[<<"psychopy.visual", "NewStim">>] = "shadow.NewStim"


C9_UnloadedIsInstalledNotLoaded ==
    (last.op = "listPlugins" /\ last.plugin = "unloaded") =>
        LET NotLoaded(p) == p \notin Range(last.pre.loaded)
        IN  last.list = SelectSeq(last.pre.installed, NotLoaded)


(***************************************************************************)
(* Specification of the startup list: scans and startUpPlugins calls       *)
(***************************************************************************)
NextStartUp ==
    \/ \E found \in Environments : ScanPlugins(found)
    \/ \E arg \in StartUpArgs, add \in BOOLEAN, verify \in BOOLEAN :
          StartUpPlugins(arg, add, verify)
SpecStartUp == Init /\ [][NextStartUp]_vars

NextChecksum ==
    \/ \E size \in FileSizes, method \in Methods, writeOut \in BOOLEAN :
          CkOpen(size, method, writeOut)
    \/ CkReadFirst
    \/ CkLoop
    \/ CkFinish
SpecChecksum == Init /\ [][NextChecksum]_vars

(***************************************************************************)
(* C10  When computeChecksum returns, every chunk read from the file, from *)
(* the first to the last, has been fed to the hash once and in file order, *)
(* and the digest returned is the digest of the complete file contents.    *)
(***************************************************************************)
C10_DigestOfWholeFile ==
    ck.pc = "done" =>
        /\ LET NonEmpty(c) == ~IsEmptyChunk(c)
           IN  SelectSeq(ck.updates, NonEmpty) = SelectSeq(ck.reads, NonEmpty)
        /\ ck.digest = HexDigest(ck.method, << <<0, ck.size>> >>)

(***************************************************************************)
(* C11  Once more values have been appended to a ring buffer than its      *)
(* capacity (since creation or the last clear), len(buffer) is the         *)
(* capacity, isFull() is True and buffer[:] is the last max_size appended  *)
(* values in the order they were appended.                                 *)
(***************************************************************************)
LastAppended(n) == SubSeq(rbAppended, Len(rbAppended) - n + 1, Len(rbAppended))

C11_OverflowKeepsLastValues ==
    Len(rbAppended) > ring.max_size =>
        /\ BufferLen(ring) = ring.max_size
        /\ IsFull(ring)
        /\ GetItemAll(ring) = LastAppended(ring.max_size)

C11_Witness ==
    /\ Len(rbAppended) > ring.max_size
    /\ ring.max_size = 3
    /\ LastAppended(3) = << 2, 1, 2 >>
    /\ rbAppended[1] = 1

(***************************************************************************)
(* C12  While fewer values than the capacity have been appended since      *)
(* creation or the last clear() (k values, 0 < k < max_size),              *)
(* getElements() and buffer[:] have length k and are those k values in     *)
(* the order they were appended.                                           *)
(***************************************************************************)
C12_PartialHoldsAppendedValues ==
    (0 < Len(rbAppended) /\ Len(rbAppended) < ring.max_size) =>
        /\ Len(GetElements(ring)) = Len(rbAppended)
        /\ GetElements(ring) = rbAppended
        /\ GetItemAll(ring) = rbAppended

(***************************************************************************)
(* Specification of the simulated eye tracker: the clock advances, also    *)
(* inside _poll(), and the tracker is connected, set recording and polled  *)
(***************************************************************************)
NextTracker ==
    \/ Tick
    \/ \E enable \in BOOLEAN : SetConnectionState(enable)
    \/ \E recording \in BOOLEAN : SetRecordingState(recording)
    \/ PollStart
    \/ \E lb \in BOOLEAN, rb \in BOOLEAN, position \in Positions : PollLoop(lb, rb, position)
InitTrackerSpec ==
    /\ InitPlugins
    /\ InitLast
    /\ InitChecksum
    /\ RingBufferUnused
    /\ InitTracker
    /\ InitFlow
    /\ InitNameSpace
    /\ OtherPartsAtStart
SpecTracker == InitTrackerSpec /\ [][NextTracker]_vars

(***************************************************************************)
(* C13  A _poll() call that finds the tracker connected and recording      *)
(* emits one sample per whole inter-sample interval between the last       *)
(* sample time L and the time T at which its loop ends, with the           *)
(* timestamps L+ISI, L+2*ISI, ... in increasing order, and when it returns *)
(* less than one ISI is outstanding.  Within a recording session the       *)
(* sample times of all polls are one ISI apart: none dropped, none twice.  *)
(***************************************************************************)
PollDone == poll.pc = "idle" /\ poll.ran

C13_PollEmitsEveryDueSample ==
    /\ PollDone =>
         LET n == (poll.T - poll.L) \div ISI
         IN  /\ poll.emitted = [i \in 1..n |-> poll.L + i * ISI]
             /\ et.lastTime = poll.L + n * ISI
             /\ poll.T - et.lastTime < ISI
             /\ poll.T - et.lastTime >= 0
    /\ \A i \in 1..(Len(poll.session) - 1) : poll.session[i + 1] = poll.session[i] + ISI
    /\ (et.recording /\ poll.session # << >>) =>
         et.lastTime = poll.session[Len(poll.session)]

C13_Witness ==
    /\ PollDone
    /\ Len(poll.emitted) >= 2
    /\ Len(poll.session) > Len(poll.emitted)
    /\ poll.T - et.lastTime = 1

(***************************************************************************)
(* C14  setConnectionState and setRecordingState are idempotent: right     *)
(* after a call of either one, a second call with the same argument leaves *)
(* the tracker (connection, recording, last sample time, latest sample)    *)
(* as it is, and isConnected() and isRecordingEnabled() answer the same.   *)
(***************************************************************************)
SecondCall ==
    IF poll.call.op = "setConnectionState" THEN SetConnectionStateCall(et, poll.call.arg)
    ELSE IF poll.call.op = "setRecordingState" THEN SetRecordingStateCall(et, poll.call.arg)
    ELSE et

C14_SettersIdempotent ==
    /\ SecondCall = et
    /\ IsConnected(SecondCall) = IsConnected(et)
    /\ IsRecordingEnabled(SecondCall) = IsRecordingEnabled(et)

C14_Witness ==
    /\ poll.call = TrackerCall("setRecordingState", FALSE, TRUE)
    /\ et.ioMouse
    /\ Len(poll.emitted) >= 1

(***************************************************************************)
(* C15  The latest sample, when the buttons read for it were left and      *)
(* right both down, has an undefined gaze and status 2; when only the      *)
(* right button was down, its gaze is the mouse position read for it and   *)
(* its status is 0.                                                        *)
(***************************************************************************)
C15_ButtonsSetGaze ==
    et.sample # NoSample =>
        /\ (et.sample.rb /\ et.sample.lb) =>
              (et.sample.gaze = NoGaze /\ et.sample.status = 2)
        /\ (et.sample.rb /\ ~et.sample.lb) =>
              (et.sample.gaze = et.sample.position /\ et.sample.status = 0)

C15_Witness ==
    /\ et.sample # NoSample
    /\ et.sample.rb /\ et.sample.lb
    /\ et.sample.status = 2
    /\ Len(poll.emitted) >= 2

(***************************************************************************)
(* Specification of the Flow: routines and new loops are inserted at any   *)
(* position, and the code is written                                       *)
(***************************************************************************)
FlowPositions == (0 - 1)..MaxFlow
NextFlow ==
    \/ \E loop \in Loops, startPos \in FlowPositions, endPos \in FlowPositions :
         AddLoop(loop, startPos, endPos)
    \/ \E name \in RoutineNames, pos \in FlowPositions : AddRoutine(Routine(name), pos)
    \/ WriteCode
InitFlowSpec ==
    /\ InitPlugins
    /\ InitLast
    /\ InitChecksum
    /\ RingBufferUnused
    /\ TrackerUnused
    /\ InitFlow
    /\ InitNameSpace
    /\ OtherPartsAtStart
SpecFlow == InitFlowSpec /\ [][NextFlow]_vars

IndicesOf(entries, entry) == { i \in 1..Len(entries) : entries[i] = entry }

OnePairInOrder(entries, loop) ==
    /\ Cardinality(IndicesOf(entries, LoopInitiator(loop))) = 1
    /\ Cardinality(IndicesOf(entries, LoopTerminator(loop))) = 1
    /\ \A i \in IndicesOf(entries, LoopInitiator(loop)) :
         \A j \in IndicesOf(entries, LoopTerminator(loop)) : i < j

(***************************************************************************)
(* C16  as stated: in a Flow built by addRoutine and addLoop calls, every  *)
(* loop has exactly one LoopInitiator and one LoopTerminator, the          *)
(* initiator at the smaller index, whatever startPos and endPos were.      *)
(***************************************************************************)
C16_EveryLoopPaired ==
    \A loop \in InFlow(flow.entries) : OnePairInOrder(flow.entries, loop)

(***************************************************************************)
(* C16  as amended: the same, for a Flow built by addRoutine calls and by  *)
(* addLoop calls that were each given a new loop and positions with        *)
(* 0 <= startPos <= endPos and startPos <= len(flow).                      *)
(***************************************************************************)
C16_RegularAddLoopPairs ==
    written.regular =>
        \A loop \in InFlow(flow.entries) : OnePairInOrder(flow.entries, loop)

C16_Witness ==
    /\ written.op = "addLoop"
    /\ written.regular
    /\ Len(flow.entries) = 5
    /\ flow.entries[2] = LoopInitiator(2)
    /\ flow.entries[3] = LoopTerminator(2)
    /\ flow.entries[5] = LoopTerminator(1)

\* the entries open and close loops like brackets: every terminator closes
\* the loop opened last among those still open, and none stays open
RECURSIVE OpenLoops(_, _, _)
OpenLoops(entries, i, open) ==
    IF i > Len(entries) THEN [ok |-> TRUE, open |-> open]
    ELSE IF entries[i].type = "LoopInitiator"
         THEN OpenLoops(entries, i + 1, Append(open, entries[i].ref))
    ELSE IF entries[i].type = "LoopTerminator"
         THEN IF open # << >> /\ open[Len(open)] = entries[i].ref
              THEN OpenLoops(entries, i + 1, SubSeq(open, 1, Len(open) - 1))
              ELSE [ok |-> FALSE, open |-> open]
    ELSE OpenLoops(entries, i + 1, open)

WellNested(entries) ==
    LET r == OpenLoops(entries, 1, << >>) IN r.ok /\ r.open = << >>

StackStep(step) ==
    IF step.type = "LoopInitiator" THEN step.after = Append(step.before, step.ref)
    ELSE IF step.type = "LoopTerminator"
    THEN /\ step.before # << >>
         /\ step.before[Len(step.before)] = step.ref
         /\ step.after = SubSeq(step.before, 1, Len(step.before) - 1)
    ELSE step.after = step.before

MainPassIsStack ==
    /\ ~written.raised
    /\ Len(written.trace) = Len(flow.entries)
    /\ \A k \in 1..Len(written.trace) :
         /\ written.trace[k].type = flow.entries[k].type
         /\ written.trace[k].ref = flow.entries[k].ref
         /\ StackStep(written.trace[k])
    /\ flow.loopList = << >>

(***************************************************************************)
(* C17  as stated: in the main pass of writeCode over any Flow built by    *)
(* addLoop calls, every LoopInitiator pushes its loop on _loopList, every  *)
(* LoopTerminator removes the loop that is last on _loopList, and          *)
(* _loopList is empty when the pass ends.                                  *)
(***************************************************************************)
C17_LoopListIsStack ==
    written.op = "writeCode" => MainPassIsStack

(***************************************************************************)
(* C17  as amended: the same, for a Flow whose initiators and terminators  *)
(* are properly nested (every terminator closes the loop opened last among *)
(* those still open, and none stays open) and a writeCode call that finds  *)
(* _loopList empty.                                                        *)
(***************************************************************************)
C17_NestedFlowLoopListIsStack ==
    (written.op = "writeCode" /\ WellNested(flow.entries) /\ written.startList = << >>)
        => MainPassIsStack

C17_Witness ==
    /\ written.op = "writeCode"
    /\ WellNested(flow.entries)
    /\ written.startList = << >>
    /\ \E k \in 1..Len(written.trace) :
         /\ written.trace[k].type = "LoopTerminator"
         /\ Len(written.trace[k].before) = 2
    /\ \E k \in 1..Len(flow.entries) : flow.entries[k].type = "Routine"

(***************************************************************************)
(* Specification of the NameSpace: names are made valid, added, removed    *)
(* and checked for collisions                                              *)
(***************************************************************************)
GivenNames ==
    { << "a" >>, << "t" >>, << "_", "1" >>, << "a", " ", "1" >>, << >>, << "1" >>,
      << "i", "f" >>, << "2", "@" >> }
EnteredNames == { << "a" >>, << "_", "1" >>, << "i", "f" >>, << "t" >> }
NextNameSpace ==
    \/ \E given \in GivenNames, add_to_space \in BOOLEAN : MakeValid(given, add_to_space)
    \/ \E name \in EnteredNames : NsAdd(name)
    \/ \E name \in EnteredNames : NsRemove(name)
    \/ \E order \in Listings(Collided(user)) : GetCollisions(order)
InitNameSpaceSpec ==
    /\ InitPlugins
    /\ InitLast
    /\ InitChecksum
    /\ RingBufferUnused
    /\ TrackerUnused
    /\ InitFlow
    /\ InitNameSpace
    /\ OtherPartsAtStart
SpecNameSpace == InitNameSpaceSpec /\ [][NextNameSpace]_vars

(***************************************************************************)
(* C18  The name make_valid returns is a valid identifier (is_valid holds  *)
(* for it) and, when it is returned, is claimed by no category (exists     *)
(* gives None for it in the name space the call found).                    *)
(***************************************************************************)
C18_MakeValidIsValidAndUnclaimed ==
    nsCall.op = "make_valid" =>
        /\ is_valid(nsCall.ret.list[1])
        /\ exists(nsCall.pre, nsCall.ret.list[1]) = "None"

(***************************************************************************)
(* C19  In a run of make_valid('a') calls that starts with 'a' unclaimed,  *)
(* each result being added to the user names, the results are 'a', 'a_1',  *)
(* 'a_2' in that order.                                                    *)
(***************************************************************************)
DocumentedResults == << << "a" >>, << "a", "_", "1" >>, << "a", "_", "2" >> >>

C19_SuffixesStartAtOne ==
    (nsCall.run.given = << "a" >> /\ nsCall.run.fresh) =>
        \A k \in 1..Len(nsCall.run.rets) :
            k <= 3 => nsCall.run.rets[k] = DocumentedResults[k]

(***************************************************************************)
(* C20  get_collisions() returns, sorted and with each name once, exactly  *)
(* the user names that are also in the builder, psychopy, numpy or         *)
(* keywords category or that occur more than once among the user names.    *)
(***************************************************************************)
Occurrences(userV, name) == Cardinality({ k \in 1..Len(userV) : userV[k] = name })

RECURSIVE SeqOfSet(_)
SeqOfSet(S) == IF S = {} THEN << >>
               ELSE LET x == CHOOSE y \in S : TRUE IN << x >> \o SeqOfSet(S \ {x})

CollidingNames(userV) ==
    { n \in Range(userV) : n \in builder \cup psychopy \cup numpy \cup keywords
                           \/ Occurrences(userV, n) > 1 }

C20_CollisionsSortedOnce ==
    nsCall.op = "get_collisions" =>
        nsCall.ret.list = Sorted(SeqOfSet(CollidingNames(nsCall.pre)))

(***************************************************************************)
(* Specification of loadFromXML: files with up to MaxRoutineNodes routine  *)
(* nodes and up to MaxFlowNodes Flow elements are loaded                   *)
(***************************************************************************)
StoredNames == { << "a" >>, << "a", " ", "1" >>, << "t" >> }
FlowElements ==
    { Element(tag, name) : tag \in {"LoopInitiator", "LoopTerminator", "Routine"},
                           name \in StoredNames }
\* the files read one after the other: each is the one read before with one
\* more routine node or one more Flow element
GrownFiles(file) ==
    { [file EXCEPT !.routines = Append(@, name)] :
        name \in { n \in { << "a" >> } : Len(file.routines) < MaxRoutineNodes } }
    \cup
    { [file EXCEPT !.flow = Append(@, e)] :
        e \in { x \in FlowElements : Len(file.flow) < MaxFlowNodes } }
NextXml == \E file \in GrownFiles(xml.file) : LoadFromXML(file)
SpecXml == Init /\ [][NextXml]_vars

\* the loop made for element i had its stored name repaired, and the file
\* holds a LoopTerminator with that stored name after it
RepairedLoop(l) ==
    /\ l.name # l.stored
    /\ \E j \in (l.id + 1)..Len(xml.file.flow) :
         xml.file.flow[j] = Element("LoopTerminator", l.stored)

(***************************************************************************)
(* C21  When loadFromXML reads a file in which a loop's stored name is     *)
(* repaired, loading runs to completion, and the Flow holds a              *)
(* LoopInitiator and a LoopTerminator that both refer to the renamed loop, *)
(* whose original name is in the list of renamed identifiers.              *)
(***************************************************************************)
C21_RepairedLoopKeepsItsPair ==
    \A k \in 1..Len(xml.result.made) :
        RepairedLoop(xml.result.made[k]) =>
            /\ ~xml.result.raised
            /\ LoopInitiator(xml.result.made[k].id) \in Range(xml.result.entries)
            /\ LoopTerminator(xml.result.made[k].id) \in Range(xml.result.entries)
            /\ xml.result.made[k].stored \in Range(xml.result.modified)


(***************************************************************************)
(* Specification of a Routine: components are added one at a time and      *)
(* getMaxTime is asked of the routine as it stands                         *)
(***************************************************************************)
NextRoutine ==
    \/ \E component \in Components : AddComponent(component)
    \/ GetMaxTime
SpecRoutine == Init /\ [][NextRoutine]_vars

\* the timed components of the routine
Timed == { k \in 1..Len(routine.components) : routine.components[k].timed }

\* start and duration of component k are both literal numbers
Literal(k) ==
    /\ routine.components[k].startTime \in { "0", "1" }
    /\ routine.components[k].duration \in { "1", "2" }

\* component k has duration -1 or empty, or a $-expression as start or duration
Unbounded(k) ==
    \/ routine.components[k].duration \in { "-1", "", "$x" }
    \/ routine.components[k].startTime = "$x"

\* the end of a component with literal start and duration
EndOf(k) == Number(routine.components[k].startTime) + Number(routine.components[k].duration)

(***************************************************************************)
(* C22  getMaxTime returns the largest start+duration of the timed         *)
(* components when every start and duration is a literal number, and       *)
(* returns FOREVER whenever some timed component has duration -1 or empty  *)
(* or a $-expression as start or duration, wherever that component stands  *)
(* and whatever the values of the other components are.                    *)
(***************************************************************************)
C22_MaxTimeOrForever ==
    routine.got.asked =>
        /\ (Timed # {} /\ \A k \in Timed : Literal(k)) =>
              /\ ~routine.got.raised
              /\ \E k \in Timed : routine.got.maxTime = EndOf(k)
              /\ \A k \in Timed : EndOf(k) <= routine.got.maxTime
        /\ (\E k \in Timed : Unbounded(k)) =>
              /\ ~routine.got.raised
              /\ routine.got.maxTime = FOREVER


(***************************************************************************)
(* Specification of dollarSyntax: the value typed into a parameter grows   *)
(* by one character between calls, up to MaxVal characters                 *)
(***************************************************************************)
NextDollar ==
    \E c \in { x \in ValChars : Len(dollar.val) < MaxVal }, valType \in ValTypes :
        DollarSyntax(Append(dollar.val, c), valType)
SpecDollar == Init /\ [][NextDollar]_vars

\* val holds a $ that no backslash stands before
HasUnescapedDollar(val) ==
    \E i \in 1..Len(val) : val[i] = "$" /\ (i = 1 \/ val[i - 1] # "\\")

(***************************************************************************)
(* C23  dollarSyntax(val, valType) returns valType unchanged whenever val  *)
(* holds no unescaped $; for "$x" it returns the type 'code'; for the      *)
(* escaped "\$x" it returns the declared type and a value that still holds *)
(* the dollar character.                                                   *)
(***************************************************************************)
C23_DollarSyntaxTypes ==
    /\ ~HasUnescapedDollar(dollar.val) => dollar.out.valType = dollar.valType
    /\ dollar.val = << "$", "x" >> => dollar.out.valType = "code"
    /\ dollar.val = << "\\", "$", "x" >> =>
          /\ dollar.out.valType = dollar.valType
          /\ "$" \in Range(dollar.out.val)

\* the escaped value was passed with the declared type 'num' and came back
\* as it was
C23_Witness ==
    /\ dollar.val = << "\\", "$", "x" >>
    /\ dollar.valType = "num"
    /\ dollar.out = [val |-> << "\\", "$", "x" >>, valType |-> "num"]


(***************************************************************************)
(* Specification of a TextBox2 that has the focus: characters and cursor   *)
(* keys arrive in any order and the window draws the box in between        *)
(***************************************************************************)
NextTextBox ==
    \/ \E chr \in TypedChars : OnText(chr)
    \/ \E key \in CursorKeys, lit \in BOOLEAN : OnCursorKeys(key, lit)
    \/ \E lit \in BOOLEAN : DrawTextBox(lit)
SpecTextBox == Init /\ [][NextTextBox]_vars

(***************************************************************************)
(* C24  After every event handled by _onText or _onCursorKeys the caret    *)
(* index lies within 0 .. glyph-count - 1, the glyph count being the       *)
(* number of laid-out characters of the current text.                      *)
(***************************************************************************)
C24_CaretIndexInRange ==
    tb.event \notin { "none", "draw" } =>
        tb.box.index \in 0..(GlyphCount(tb.box.text) - 1)

\* Python's text with the character at index i taken out
Without(text, i) == SubSeq(text, 1, i) \o SubSeq(text, i + 2, Len(text))

(***************************************************************************)
(* C30  A backspace with the caret at index 0 leaves the text unchanged;   *)
(* a backspace with the caret at an index i > 0 of the text removes the    *)
(* character at position i - 1 and no other.                               *)
(***************************************************************************)
C30_BackspaceRemovesOneBefore ==
    (tb.event = "MOTION_BACKSPACE" /\ tb.before.index \in 0..Len(tb.before.text)) =>
        /\ tb.before.index = 0 => tb.box.text = tb.before.text
        /\ tb.before.index > 0 => tb.box.text = Without(tb.before.text, tb.before.index - 1)


(***************************************************************************)
(* Specification of setAttribute: calls for size and for autoLog with any  *)
(* value, log, operation and stealth                                       *)
(***************************************************************************)
NextAttribute ==
    \/ \E value \in SizeValues, log \in LogValues, operation \in Operations,
          stealth \in BOOLEAN, setterRaises \in BOOLEAN :
            SetAttribute(value, log, operation, stealth, setterRaises)
    \/ \E value \in BOOLEAN, log \in LogValues, stealth \in BOOLEAN :
            SetAutoLog(value, log, stealth)
SpecAttribute == Init /\ [][NextAttribute]_vars

(***************************************************************************)
(* C25  When setAttribute was called with stealth=False for an attribute   *)
(* other than 'autoLog', obj.autoLog has at the end of the call the value  *)
(* it had before it, whether the call returned or the assignment raised.   *)
(***************************************************************************)
C25_AutoLogRestored ==
    (stim.call.attrib = "size" /\ ~stim.call.stealth) =>
        stim.obj.autoLog = stim.before.autoLog


(***************************************************************************)
(* Specification of the package manager: packages are selected, versions   *)
(* chosen, and pip is run from the panel and from the list                 *)
(***************************************************************************)
NextPackages ==
    \/ \E pipname \in { "None", "p" } : SelectPackage(pipname)
    \/ \E version \in Range(Releases) : ChooseVersion(version)
    \/ \E returncode \in ReturnCodes, stderr \in BOOLEAN : ClickInstall(returncode, stderr)
    \/ \E returncode \in ReturnCodes, stderr \in BOOLEAN : ListUninstall(returncode, stderr)
    \/ \E mode \in PipModes, version \in Range(Releases), returncode \in ReturnCodes,
          stderr \in BOOLEAN : Execute(mode, version, returncode, stderr)
SpecPackages == Init /\ [][NextPackages]_vars

(***************************************************************************)
(* C26  After installPackage, uninstallPackage or execute ran pip, the     *)
(* error dialog was shown exactly when the return code was not zero and    *)
(* the success notification exactly when it was zero, whatever was         *)
(* written to standard error.                                              *)
(***************************************************************************)
C26_DialogFollowsReturnCode ==
    pkg.dialog.by # "none" =>
        /\ pkg.dialog.shown = "error" <=> pkg.dialog.returncode # 0
        /\ pkg.dialog.shown = "success" <=> pkg.dialog.returncode = 0

(***************************************************************************)
(* C27  After a package was selected, a version chosen or the Install      *)
(* button clicked, the Install button is enabled if and only if a package  *)
(* is selected and the version chosen in the version control differs from  *)
(* the version of the package that is installed.                           *)
(***************************************************************************)
C27_InstallEnabledIffDifferent ==
    pkg.event \in { "package", "version", "install" } =>
        (pkg.panel.enabled <=>
            (pkg.panel.package # "None" /\ pkg.panel.selection # pkg.installed))


(***************************************************************************)
(* Specification of Form: forms of up to MaxItems items are laid out       *)
(***************************************************************************)
NextForm == \E item \in FormItems : MakeForm(item)
SpecForm == Init /\ [][NextForm]_vars

\* the height of the row of item k, of its response, and how much lower the
\* base position of item k + 1 is than that of item k
RespHeight(k) == GetRespHeight(form.items[k])
RowHeight(k) ==
    IF RespHeight(k) >= form.items[k].qHeight THEN RespHeight(k) ELSE form.items[k].qHeight
Drop(k) == form.baseYpositions[k] - form.baseYpositions[k + 1]

(***************************************************************************)
(* C28  For two consecutive items of a Form the base position of the       *)
(* second is lower than that of the first by the item padding, the row     *)
(* height of the second item and half of what the first response is        *)
(* higher than the second; this is at least the padding plus the halves    *)
(* of the two response heights, so the second is strictly lower.           *)
(***************************************************************************)
C28_DropIsPaddingRowAndHalfResponses ==
    \A k \in 1..(Len(form.items) - 1) :
        /\ 2 * Drop(k) = 2 * ItemPadding + 2 * RowHeight(k + 1)
                             + RespHeight(k) - RespHeight(k + 1)
        /\ 2 * Drop(k) >= 2 * ItemPadding + RespHeight(k) + RespHeight(k + 1)
        /\ Drop(k) > 0

\* two items whose responses differ in height were laid out
C28_Witness ==
    /\ Len(form.items) = 2
    /\ Len(form.baseYpositions) = 2
    /\ RespHeight(1) < RespHeight(2)
    /\ RowHeight(1) > RowHeight(2)

(***************************************************************************)
(* C28 as stated: the second base position is lower than the first by at   *)
(* least the larger of the two items' heights plus the item padding.       *)
(***************************************************************************)
C28_DropIsLargerRowAndPadding ==
    \A k \in 1..(Len(form.items) - 1) :
        /\ Drop(k) > 0
        /\ Drop(k) >= RowHeight(k) + ItemPadding
        /\ Drop(k) >= RowHeight(k + 1) + ItemPadding


(***************************************************************************)
(* Specification of an edited Flow: routines and loops are inserted and    *)
(* components removed                                                      *)
(***************************************************************************)
Removable ==
    { Handler(loop) : loop \in Loops } \cup { LoopInitiator(loop) : loop \in Loops }
        \cup { LoopTerminator(loop) : loop \in Loops }
        \cup { Routine(name) : name \in RoutineNames }
NextEdit ==
    \/ \E loop \in Loops, startPos \in 0..Len(flow.entries) :
         \E endPos \in startPos..Len(flow.entries) : AddLoop(loop, startPos, endPos)
    \/ \E name \in RoutineNames, pos \in 0..Len(flow.entries) : AddRoutine(Routine(name), pos)
    \/ \E component \in Removable : RemoveComponent(component, NoId)
    \/ \E name \in RoutineNames, id \in 0..Len(flow.entries) :
         RemoveComponent(Routine(name), id)
SpecEdit == Init /\ [][NextEdit]_vars

\* the entry belongs to the component removeComponent was given
BelongsTo(entry, component) ==
    IF component.type = "Routine" THEN entry = component
    ELSE entry.type \in { "LoopInitiator", "LoopTerminator" } /\ entry.ref = component.ref

\* the entries that do not belong to the component
Others(entries, component) ==
    LET others(entry) == ~BelongsTo(entry, component)
    IN  SelectSeq(entries, others)

(***************************************************************************)
(* C29  After removeComponent was called with a loop handler of any type,  *)
(* with a LoopInitiator or LoopTerminator, or with a Routine and no id,    *)
(* the Flow holds no entry that belongs to that component, also when the   *)
(* entries were adjacent, and holds all other entries in the order they    *)
(* had.                                                                    *)
(***************************************************************************)
C29_RemovesAllAndNothingElse ==
    [][(written'.op = "removeComponent" /\ edit'.id = NoId) =>
          flow'.entries = Others(flow.entries, edit'.component)]_vars
====
